---- MODULE Spec2Model ----
(***************************************************************************)
(* A state-machine model of the isoWorld procedural world engine           *)
(* (src/services/IsoEngine.ts): seeded chunk generation, the persistent    *)
(* modification overlay, the per-chunk lighting pass, the chunk cache and  *)
(* the render cache.                                                       *)
(*                                                                         *)
(* Scale.  The program works on chunks of 30..50 x 30..50 x 70 cells.  The *)
(* model keeps every formula of the source but runs it on a world scaled   *)
(* down to a few cells per axis (MIN_CHUNK_SIZE, MAX_CHUNK_SIZE,           *)
(* WORLD_HEIGHT and the landmark height OrbZ are the scaled dimensions).   *)
(*                                                                         *)
(* Numbers.  SeededRandom is modelled bit for bit on 32-bit words, kept as *)
(* pairs <<high 16 bits, low 16 bits>>.  PerlinNoise is a floating point   *)
(* field; the model keeps what the engine relies on (a field fixed by the  *)
(* seed string, with values in (-1, 1)) and returns it in thousandths.     *)
(***************************************************************************)
EXTENDS Integers, Sequences, FiniteSets, TLC

(***************************************************************************)
(* Evaluation helpers.  TLC computes a function constructor, an operator   *)
(* argument and a LET definition by need; the two operators below compute  *)
(* a value once: Explicit(f) is f with every value computed, The({e}) is   *)
(* e, and a name bound over {e} stands for the value of e.                 *)
(***************************************************************************)
Explicit(f) == f @@ <<>>

The(S) == CHOOSE x \in S : TRUE

(***************************************************************************)
(* 32-bit arithmetic (Math.imul, ^, |, >>>, + under ToInt32)               *)
(***************************************************************************)
RECURSIVE Xor16(_, _, _)
Xor16(a, b, n) ==
    IF n = 0 THEN 0
    ELSE (((a % 2) + (b % 2)) % 2) + 2 * Xor16(a \div 2, b \div 2, n - 1)

RECURSIVE Or16(_, _, _)
Or16(a, b, n) ==
    IF n = 0 THEN 0
    ELSE (IF a % 2 = 1 \/ b % 2 = 1 THEN 1 ELSE 0) + 2 * Or16(a \div 2, b \div 2, n - 1)

U32Xor(a, b) == <<Xor16(a[1], b[1], 16), Xor16(a[2], b[2], 16)>>

\* a | k and a ^ k for a small constant k (k < 65536)
U32OrLow(a, k) == <<a[1], Or16(a[2], k, 16)>>

U32XorLow(a, k) == <<a[1], Xor16(a[2], k, 16)>>

RECURSIVE Pow2(_)
Pow2(n) == IF n = 0 THEN 1 ELSE 2 * Pow2(n - 1)

\* a >>> k, 0 < k < 16
U32Shr(a, k) ==
    <<a[1] \div Pow2(k), (a[2] \div Pow2(k)) + ((a[1] % Pow2(k)) * Pow2(16 - k))>>

U32Add(a, b) ==
    LET lo == a[2] + b[2]
    IN  <<(a[1] + b[1] + lo \div 65536) % 65536, lo % 65536>>

\* (x * y) mod 2^16 without leaving 31 bits
MulMod16(x, y) ==
    ((x * (y % 256)) + (((x * (y \div 256)) % 256) * 256)) % 65536

\* Math.imul: the low 32 bits of the product
imul(a, b) ==
    LET t0 == (a[2] % 256) * b[2]
        t1 == (a[2] \div 256) * b[2]
        L  == t0 + ((t1 % 256) * 256)
    IN  <<((t1 \div 256) + (L \div 65536) + MulMod16(a[1], b[2]) + MulMod16(a[2], b[1])) % 65536,
          L % 65536>>

(***************************************************************************)
(* Strings are sequences of one-character strings; charCodeAt is a table   *)
(* over the characters the engine's seed and key strings are made of.      *)
(***************************************************************************)
charCodeAt(c) ==
    CASE c = "0" -> 48 [] c = "1" -> 49 [] c = "2" -> 50 [] c = "3" -> 51
      [] c = "4" -> 52 [] c = "5" -> 53 [] c = "6" -> 54 [] c = "7" -> 55
      [] c = "8" -> 56 [] c = "9" -> 57 [] c = "," -> 44 [] c = "-" -> 45
      [] c = "_" -> 95 [] c = "a" -> 97 [] c = "b" -> 98 [] c = "d" -> 100
      [] c = "e" -> 101 [] c = "h" -> 104 [] c = "i" -> 105 [] c = "m" -> 109
      [] c = "p" -> 112 [] c = "t" -> 116 [] c = "u" -> 117

Digit(d) == CASE d = 0 -> "0" [] d = 1 -> "1" [] d = 2 -> "2" [] d = 3 -> "3"
              [] d = 4 -> "4" [] d = 5 -> "5" [] d = 6 -> "6" [] d = 7 -> "7"
              [] d = 8 -> "8" [] d = 9 -> "9"

\* `${n}` for an integer n
RECURSIVE NatToStr(_)
NatToStr(n) == IF n < 10 THEN <<Digit(n)>> ELSE NatToStr(n \div 10) \o <<Digit(n % 10)>>

IntToStr(n) == IF n < 0 THEN <<"-">> \o NatToStr(0 - n) ELSE NatToStr(n)

(***************************************************************************)
(* SeededRandom: the seed hash of the constructor and mulberry32           *)
(***************************************************************************)
RECURSIVE SeedHash(_, _, _)
SeedHash(h, seedStr, i) ==
    IF i > Len(seedStr) THEN h
    ELSE The({SeedHash(h2, seedStr, i + 1) :
                 h2 \in {imul(U32XorLow(h, charCodeAt(seedStr[i])), <<52382, 11601>>)}})

\* new SeededRandom(seedStr): the state is the 32-bit seed
SeededRandom(seedStr) == SeedHash(<<27145, 58983>>, seedStr, 1)

\* next(): the new state and the 32-bit numerator u of the result u / 2^32
Mix(s) ==
    The({The({[seed |-> s, u |-> U32Xor(t2, U32Shr(t2, 14))] :
                t2 \in {U32Xor(t1, U32Add(t1, imul(U32Xor(t1, U32Shr(t1, 7)), U32OrLow(t1, 61))))}}) :
           t1 \in {imul(U32Xor(s, U32Shr(s, 15)), U32OrLow(s, 1))}})

next(seed) == The({Mix(s) : s \in {U32Add(seed, <<27947, 31221>>)}})

\* Math.floor(r * k) for r = u / 2^32 and a small positive integer k
FloorMul(u, k) == (u[1] * k + (u[2] * k) \div 65536) \div 65536

(***************************************************************************)
(* Dimensions (scaled) and program constants                               *)
(***************************************************************************)
\* src/constants.ts:3-5 has 30, 50 and 70; the model runs the same code on
\* a world a few cells wide and high.
MIN_CHUNK_SIZE == 2
MAX_CHUNK_SIZE == 3
WORLD_HEIGHT == 3
\* the landmark ("orb") height, 40 of 70 in the source
OrbZ == 2

\* enum BlockType
AIR == 0
GRASS == 1
DIRT == 2
STONE == 3
BEDROCK == 4
LOG == 5
LEAVES == 6
SAND == 7
VINE == 8
ICE == 9
SPRUCE_LOG == 10
SPRUCE_LEAVES == 11
WOODEN_PLANKS == 12

BLOCK_DEFINITIONS ==
    Explicit([t \in AIR..WOODEN_PLANKS |->
        CASE t = AIR           -> [hp |-> 0,     lightDampening |-> 1,  lightEmission |-> 0]
          [] t = GRASS         -> [hp |-> 30,    lightDampening |-> 16, lightEmission |-> 0]
          [] t = DIRT          -> [hp |-> 25,    lightDampening |-> 16, lightEmission |-> 0]
          [] t = STONE         -> [hp |-> 60,    lightDampening |-> 16, lightEmission |-> 0]
          [] t = BEDROCK       -> [hp |-> 99999, lightDampening |-> 16, lightEmission |-> 0]
          [] t = LOG           -> [hp |-> 40,    lightDampening |-> 16, lightEmission |-> 0]
          [] t = LEAVES        -> [hp |-> 10,    lightDampening |-> 2,  lightEmission |-> 0]
          [] t = SAND          -> [hp |-> 20,    lightDampening |-> 16, lightEmission |-> 0]
          [] t = VINE          -> [hp |-> 5,     lightDampening |-> 2,  lightEmission |-> 0]
          [] t = ICE           -> [hp |-> 20,    lightDampening |-> 2,  lightEmission |-> 0]
          [] t = SPRUCE_LOG    -> [hp |-> 40,    lightDampening |-> 16, lightEmission |-> 0]
          [] t = SPRUCE_LEAVES -> [hp |-> 10,    lightDampening |-> 2,  lightEmission |-> 0]
          [] t = WOODEN_PLANKS -> [hp |-> 35,    lightDampening |-> 16, lightEmission |-> 0]])

(***************************************************************************)
(* Voxels.  A BlockInstance is a record; a field the object does not have  *)
(* (isNatural, variant) reads as undefined: FALSE and "".  null is NoBlock.*)
(***************************************************************************)
NoBlock == [type |-> 0 - 1, hp |-> 0, isNatural |-> FALSE, variant |-> ""]

BlockInstance(t, v) ==
    [type |-> t, hp |-> BLOCK_DEFINITIONS[t].hp, isNatural |-> FALSE, variant |-> v]

\* the cells of a size x size x WORLD_HEIGHT grid, as <<x, y, z>>
Cells(size) == (0..(size - 1)) \X (0..(size - 1)) \X (0..(WORLD_HEIGHT - 1))

InGrid(x, y, z, size) ==
    x >= 0 /\ x < size /\ y >= 0 /\ y < size /\ z >= 0 /\ z < WORLD_HEIGHT

\* map[z]?.[y]?.[x]: a cell the arrays do not hold reads as no block
BlockAt(map, x, y, z) ==
    IF <<x, y, z>> \in DOMAIN map THEN map[<<x, y, z>>] ELSE NoBlock

(***************************************************************************)
(* Keys                                                                    *)
(***************************************************************************)
getChunkKey(x, y) == IntToStr(x) \o <<",">> \o IntToStr(y)

getVoxelKey(x, y, z) == IntToStr(x) \o <<",">> \o IntToStr(y) \o <<",">> \o IntToStr(z)

DigitValue(c) == charCodeAt(c) - 48

\* Number(s) for the decimal integer strings the keys are made of
RECURSIVE ParseNat(_, _, _)
ParseNat(s, i, acc) ==
    IF i > Len(s) THEN acc ELSE ParseNat(s, i + 1, (acc * 10) + DigitValue(s[i]))

Number(s) ==
    IF Len(s) > 0 /\ s[1] = "-" THEN 0 - ParseNat(s, 2, 0) ELSE ParseNat(s, 1, 0)

\* key.split(',')
RECURSIVE split(_, _, _, _)
split(s, i, cur, acc) ==
    IF i > Len(s) THEN Append(acc, cur)
    ELSE IF s[i] = "," THEN split(s, i + 1, <<>>, Append(acc, cur))
    ELSE split(s, i + 1, Append(cur, s[i]), acc)

\* key.split(',').map(Number)
ParseKey(key) ==
    The({<<Number(parts[1]), Number(parts[2]), Number(parts[3])>> :
           parts \in {split(key, 1, <<>>, <<>>)}})

(***************************************************************************)
(* JavaScript Map: the entries <<key, value>> in insertion order           *)
(***************************************************************************)
MapHas(m, k) == \E i \in 1..Len(m) : m[i][1] = k

MapGet(m, k) == m[CHOOSE i \in 1..Len(m) : m[i][1] = k][2]

MapSet(m, k, v) ==
    IF MapHas(m, k)
    THEN [m EXCEPT ![CHOOSE i \in 1..Len(m) : m[i][1] = k] = <<k, v>>]
    ELSE Append(m, <<k, v>>)

MapKeys(m) == {m[i][1] : i \in 1..Len(m)}

(***************************************************************************)
(* PerlinNoise.  A sample point is given in thousandths of a lattice unit  *)
(* (every frequency the engine uses is a multiple of 0.001), the result is *)
(* in thousandths too.  The gradient field vanishes on the lattice; off    *)
(* the lattice the value is drawn from the generator seeded by the         *)
(* instance's seed string and the point, strictly inside (-1, 1).          *)
(***************************************************************************)
noise(seedStr, X, Y, Z) ==
    IF X % 1000 = 0 /\ Y % 1000 = 0 /\ Z % 1000 = 0 THEN 0
    ELSE FloorMul(next(SeededRandom(seedStr \o <<"_">> \o getVoxelKey(X, Y, Z))).u, 1999) - 999

Abs(n) == IF n < 0 THEN 0 - n ELSE n

Max(a, b) == IF a > b THEN a ELSE b

Min(a, b) == IF a < b THEN a ELSE b

(***************************************************************************)
(* Biome classification                                                    *)
(***************************************************************************)
getBiomeAt(seed, chunkX, chunkY) ==
    LET temperature == noise(seed \o <<"-", "t", "e", "m", "p">>, chunkX * 100, chunkY * 100, 0)
        humidity    == noise(seed \o <<"-", "h", "u", "m", "i", "d">>, chunkX * 100, chunkY * 100, 0)
    IN  IF temperature < 0 - 500 THEN "SNOW"
        ELSE IF temperature > 500 THEN "DESERT"
        ELSE IF humidity > 300 THEN "JUNGLE"
        ELSE IF humidity < 0 - 300 THEN "PRAIRIE"
        ELSE "GRASSLAND"

(***************************************************************************)
(* Chunk generation, steps 1-7: sizing, height field, column fill, cave    *)
(* carving, border blending, the landmark crater and the snow lakes.       *)
(* Structure placement (trees, vines, ice spikes) writes only into empty   *)
(* cells above the surface from the chunk's own generator and is not part  *)
(* of this model.                                                          *)
(***************************************************************************)
\* const chunkSeed = `${this.worldSeed}_${chunkX},${chunkY}`; the first draw sizes the chunk
ChunkSize(seed, chunkX, chunkY) ==
    LET prng == SeededRandom(seed \o <<"_">> \o getChunkKey(chunkX, chunkY))
    IN  MIN_CHUNK_SIZE + FloorMul(next(prng).u, MAX_CHUNK_SIZE - MIN_CHUNK_SIZE + 1)

\* the biome's height noise at global column (gx, gy), in thousandths of a cell
HeightNoise(biome, seed, gx, gy) ==
    CASE biome = "SNOW" ->
            (noise(seed, gx * 12, gy * 12, 0) * 20) + (noise(seed, gx * 50, gy * 50, 0) * 2)
      [] biome = "JUNGLE" ->
            (noise(seed, gx * 20, gy * 20, 0) * 12) + (Abs(noise(seed, gx * 80, gy * 80, 0)) * 4)
      [] biome = "PRAIRIE" -> noise(seed, gx * 10, gy * 10, 0) * 6
      [] biome = "DESERT" -> Abs(noise(seed, gx * 25, gy * 25, 0)) * 10
      [] OTHER -> noise(seed, gx * 15, gy * 15, 0) * 10

surfaceBlockOf(biome) == IF biome = "DESERT" THEN SAND ELSE GRASS

underSurfaceBlockOf(biome) == IF biome = "DESERT" THEN SAND ELSE DIRT

\* Math.floor(WORLD_HEIGHT * baseHeightModifier)
baseHeightOf(biome) ==
    CASE biome = "SNOW" -> (WORLD_HEIGHT * 45) \div 100
      [] biome = "PRAIRIE" -> (WORLD_HEIGHT * 60) \div 100
      [] biome = "GRASSLAND" -> (WORLD_HEIGHT * 55) \div 100
      [] OTHER -> (WORLD_HEIGHT * 50) \div 100

surfaceHeightAt(biome, seed, chunkX, chunkY, x, y) ==
    LET gx == x + (chunkX * MAX_CHUNK_SIZE)
        gy == y + (chunkY * MAX_CHUNK_SIZE)
    IN  Max(1, Min(WORLD_HEIGHT - 1,
                   ((baseHeightOf(biome) * 1000) + HeightNoise(biome, seed, gx, gy)) \div 1000))

\* a border blending that bleeds at every distance from the edge
shouldBleed_always(seed, dist, seedX, seedY) ==
    TRUE

\* dist < blendThreshold && (noise(seedX * 0.5, seedY * 0.5, 0) + 1) / 2 > dist / blendThreshold
shouldBleed(seed, dist, seedX, seedY) ==
    /\ dist < 6
    /\ (noise(seed, seedX * 500, seedY * 500, 0) + 1000) * 6 > dist * 2000

\* the surface voxel of a column, with the neighbours' biomes bleeding in;
\* nb holds the biomes of the north, south, west and east neighbours
SurfaceBlock(seed, nb, biome, size, x, y) ==
    LET nBiome == nb[1]
        sBiome == nb[2]
        wBiome == nb[3]
        eBiome == nb[4]
        distToN == y
        distToS == size - 1 - y
        distToW == x
        distToE == size - 1 - x
        bleeds(b) ==
            \/ nBiome = b /\ shouldBleed(seed, distToN, x, 0)
            \/ sBiome = b /\ shouldBleed(seed, distToS, x, size)
            \/ wBiome = b /\ shouldBleed(seed, distToW, 0, y)
            \/ eBiome = b /\ shouldBleed(seed, distToE, size, y)
        finalBlockType == IF bleeds("DESERT") THEN SAND ELSE surfaceBlockOf(biome)
    IN  BlockInstance(finalBlockType, IF bleeds("SNOW") THEN "SNOWY" ELSE "")

\* a carving that looks at the noise alone, at any depth
isCave_anyDepth(n3d, z, surfaceHeight) ==
    Abs(n3d) < 160

\* Math.abs(n3d) < tunnelWidth && z < surfaceHeight - surfaceBuffer, with the
\* noise n3d in thousandths
isCave(n3d, z, surfaceHeight) ==
    z < surfaceHeight - 12 /\ Abs(n3d) < 160

\* the block of cell z of a column whose surface is at surfaceHeight: n3d is
\* the cave noise at the cell, surface the block the border blending gives
FillCell(z, surfaceHeight, n3d, underSurfaceBlock, surface) ==
    IF z = 0 THEN BlockInstance(BEDROCK, "")
    ELSE IF z > surfaceHeight \/ isCave(n3d, z, surfaceHeight) THEN NoBlock
    ELSE IF z < surfaceHeight - 4 THEN BlockInstance(STONE, "")
    ELSE IF z < surfaceHeight THEN BlockInstance(underSurfaceBlock, "")
    ELSE surface

\* the body of the z, y, x loops
ColumnFill(seed, chunkX, chunkY, biome, nb, size, x, y, z) ==
    LET gx == (chunkX * MAX_CHUNK_SIZE) + x
        gy == (chunkY * MAX_CHUNK_SIZE) + y
    IN  The({FillCell(z, surfaceHeight, noise(seed, gx * 40, gy * 40, z * 60),
                      underSurfaceBlockOf(biome), SurfaceBlock(seed, nb, biome, size, x, y)) :
               surfaceHeight \in {surfaceHeightAt(biome, seed, chunkX, chunkY, x, y)}})

\* the crater over the landmark of chunk (0,0): radius 2 from OrbZ up to the sky
Crater(map, size, chunkX, chunkY) ==
    IF chunkX = 0 /\ chunkY = 0
    THEN LET cx == size \div 2
             cy == size \div 2
         IN  Explicit([c \in DOMAIN map |->
                IF c[3] >= OrbZ /\ Abs(c[1] - cx) <= 2 /\ Abs(c[2] - cy) <= 2
                THEN NoBlock ELSE map[c]])
    ELSE map

\* the topmost non-null cell of a column, -1 when the column is empty
RECURSIVE TopOf(_, _, _, _)
TopOf(map, x, y, z) ==
    IF z < 0 THEN 0 - 1
    ELSE IF map[<<x, y, z>>] # NoBlock THEN z
    ELSE TopOf(map, x, y, z - 1)

\* snow biome: columns below the lake level are flooded with ice
SnowLakes(map, biome) ==
    IF biome = "SNOW"
    THEN LET lakeLevel == baseHeightOf(biome) - 4
         IN  Explicit([c \in DOMAIN map |->
                LET surfaceZ == TopOf(map, c[1], c[2], WORLD_HEIGHT - 1)
                IN  IF surfaceZ # 0 - 1 /\ surfaceZ < lakeLevel
                    THEN IF c[3] > surfaceZ /\ c[3] <= lakeLevel THEN BlockInstance(ICE, "")
                         ELSE IF c[3] = surfaceZ /\ map[c].type = GRASS
                              THEN [map[c] EXCEPT !.type = DIRT]
                         ELSE map[c]
                    ELSE map[c]])
    ELSE map

\* steps 1-7 of generateChunk: the size and the voxel grid before the overlay
Filled(seed, chunkX, chunkY, biome, nb, size) ==
    Explicit([c \in Cells(size) |->
                ColumnFill(seed, chunkX, chunkY, biome, nb, size, c[1], c[2], c[3])])

Carved(filled, size, chunkX, chunkY, biome) ==
    The({[size |-> size, map |-> SnowLakes(cratered, biome)] :
           cratered \in {Crater(filled, size, chunkX, chunkY)}})

GenerateTerrain(seed, chunkX, chunkY, biome) ==
    The({The({Carved(filled, size, chunkX, chunkY, biome) :
                filled \in {Filled(seed, chunkX, chunkY, biome, nb, size)}}) :
           size \in {ChunkSize(seed, chunkX, chunkY)},
           nb \in {<<getBiomeAt(seed, chunkX, chunkY - 1), getBiomeAt(seed, chunkX, chunkY + 1),
                     getBiomeAt(seed, chunkX - 1, chunkY), getBiomeAt(seed, chunkX + 1, chunkY)>>}})

(***************************************************************************)
(* Lighting engine.  A light map is a grid of Uint8Array rows: a stored    *)
(* value is reduced modulo 256.                                            *)
(***************************************************************************)
createEmptyLightMap(size) == Explicit([c \in Cells(size) |-> 0])

getLight(lightMap, x, y, z, size) ==
    IF ~InGrid(x, y, z, size) THEN 0 ELSE lightMap[<<x, y, z>>]

setLight(lightMap, x, y, z, value, size) ==
    IF ~InGrid(x, y, z, size) THEN lightMap
    ELSE [lightMap EXCEPT ![<<x, y, z>>] = value % 256]

\* lightDampening of the block in a cell the light passes through, 0 for no block
Dampening(block) ==
    IF block # NoBlock THEN BLOCK_DEFINITIONS[block.type].lightDampening ELSE 0

\* the z loop without its break: the light level goes on below zero
RECURSIVE SunColumn_noBreak(_, _, _, _, _, _, _)
SunColumn_noBreak(map, lightMap, x, y, z, lightLevel, size) ==
    IF z < 0 THEN lightMap
    ELSE The({SunColumn_noBreak(map, lit, x, y, z - 1, level, size) :
                 lit \in {setLight(lightMap, x, y, z, lightLevel, size)},
                 level \in {lightLevel - Dampening(BlockAt(map, x, y, z))}})

\* the z loop of the sunlight pass for one column
RECURSIVE SunColumn(_, _, _, _, _, _, _)
SunColumn(map, lightMap, x, y, z, lightLevel, size) ==
    IF z < 0 \/ lightLevel <= 0 THEN lightMap
    ELSE The({SunColumn(map, lit, x, y, z - 1, level, size) :
                 lit \in {setLight(lightMap, x, y, z, lightLevel, size)},
                 level \in {lightLevel - Dampening(BlockAt(map, x, y, z))}})

\* Step 1: the x, y loops of the sunlight pass over columns first..last in
\* loop order; column i is (i \div size, i % size).  The iterations first..mid
\* run before the iterations mid+1..last.
RECURSIVE SunlightPass(_, _, _, _, _, _)
SunlightPass(map, lightMap, first, last, ambient, size) ==
    IF first > last THEN lightMap
    ELSE IF first = last
    THEN SunColumn(map, lightMap, first \div size, first % size, WORLD_HEIGHT - 1, ambient, size)
    ELSE The({SunlightPass(map, lit, ((first + last) \div 2) + 1, last, ambient, size) :
                 lit \in {SunlightPass(map, lightMap, first, (first + last) \div 2,
                                       ambient, size)}})

\* Step 1.5: the landmark, injected when the engine's current chunk is (0,0)
InjectOrb(lightMap, size, current) ==
    IF current.x = 0 /\ current.y = 0
    THEN setLight(lightMap, size \div 2, size \div 2, OrbZ, 15, size)
    ELSE lightMap

\* Step 2: the z, y, x loops gathering the sources; cell i of that order
CellOfIndex(i, size) == <<i % size, (i \div size) % size, i \div (size * size)>>

Emission(block) ==
    IF block # NoBlock THEN BLOCK_DEFINITIONS[block.type].lightEmission ELSE 0

\* the body of the gathering loop for cell c: the light map and the queue after it
Gather(map, lightMap, queue, c, lightLevel, emission, size) ==
    IF lightLevel > 0 \/ emission > 0
    THEN [lightMap |-> IF emission > lightLevel
                       THEN setLight(lightMap, c[1], c[2], c[3], emission, size)
                       ELSE lightMap,
          lightQueue |-> Append(queue, c)]
    ELSE [lightMap |-> lightMap, lightQueue |-> queue]

\* the gathering loop over cells first..last in loop order
RECURSIVE GatherSources(_, _, _, _, _, _)
GatherSources(map, lightMap, queue, first, last, size) ==
    IF first > last THEN [lightMap |-> lightMap, lightQueue |-> queue]
    ELSE IF first = last
    THEN The({Gather(map, lightMap, queue, c, getLight(lightMap, c[1], c[2], c[3], size),
                     Emission(BlockAt(map, c[1], c[2], c[3])), size) :
                c \in {CellOfIndex(first, size)}})
    ELSE The({GatherSources(map, g.lightMap, g.lightQueue, ((first + last) \div 2) + 1, last, size) :
                 g \in {GatherSources(map, lightMap, queue, first, (first + last) \div 2, size)}})

directions ==
    << <<1, 0, 0>>, <<0 - 1, 0, 0>>, <<0, 1, 0>>, <<0, 0 - 1, 0>>, <<0, 0, 1>>, <<0, 0, 0 - 1>> >>

\* the dampening of a cell the light spreads into: a cell with no block counts as air
NeighborDampening(neighborBlock) ==
    IF neighborBlock # NoBlock
    THEN BLOCK_DEFINITIONS[neighborBlock.type].lightDampening
    ELSE BLOCK_DEFINITIONS[AIR].lightDampening

\* the body of the direction loop without lightQueue.push: a cell that is lit
\* by a neighbour does not light its own neighbours
Relax_noPush(map, lightMap, queue, n, currentLight, size) ==
    IF ~InGrid(n[1], n[2], n[3], size) THEN [lightMap |-> lightMap, lightQueue |-> queue]
    ELSE The({IF newLightLevel > getLight(lightMap, n[1], n[2], n[3], size)
              THEN [lightMap |-> setLight(lightMap, n[1], n[2], n[3], newLightLevel, size),
                    lightQueue |-> queue]
              ELSE [lightMap |-> lightMap, lightQueue |-> queue] :
                 newLightLevel \in
                    {currentLight - NeighborDampening(BlockAt(map, n[1], n[2], n[3]))}})

\* the body of the direction loop for neighbour n of a cell holding currentLight
Relax(map, lightMap, queue, n, currentLight, size) ==
    IF ~InGrid(n[1], n[2], n[3], size) THEN [lightMap |-> lightMap, lightQueue |-> queue]
    ELSE The({IF newLightLevel > getLight(lightMap, n[1], n[2], n[3], size)
              THEN [lightMap |-> setLight(lightMap, n[1], n[2], n[3], newLightLevel, size),
                    lightQueue |-> Append(queue, n)]
              ELSE [lightMap |-> lightMap, lightQueue |-> queue] :
                 newLightLevel \in
                    {currentLight - NeighborDampening(BlockAt(map, n[1], n[2], n[3]))}})

\* Step 3, inner loop: the six neighbours of the dequeued cell
RECURSIVE Spread(_, _, _, _, _, _, _)
Spread(map, lightMap, queue, cell, currentLight, d, size) ==
    IF d > Len(directions) THEN [lightMap |-> lightMap, lightQueue |-> queue]
    ELSE The({Spread(map, r.lightMap, r.lightQueue, cell, currentLight, d + 1, size) :
                 r \in {Relax(map, lightMap, queue,
                              <<cell[1] + directions[d][1], cell[2] + directions[d][2],
                                cell[3] + directions[d][3]>>,
                              currentLight, size)}})

\* Step 3, the iterations of the while loop that dequeue entries first..last
RECURSIVE Dequeue(_, _, _, _, _, _)
Dequeue(map, lightMap, queue, first, last, size) ==
    IF first = last
    THEN Spread(map, lightMap, queue, queue[first],
                getLight(lightMap, queue[first][1], queue[first][2], queue[first][3], size),
                1, size)
    ELSE The({Dequeue(map, r.lightMap, r.lightQueue, ((first + last) \div 2) + 1, last, size) :
                 r \in {Dequeue(map, lightMap, queue, first, (first + last) \div 2, size)}})

\* Step 3: while (head < lightQueue.length); the entries queued so far are
\* dequeued in order, then those queued meanwhile
RECURSIVE Propagate(_, _, _, _, _)
Propagate(map, lightMap, queue, head, size) ==
    IF head > Len(queue) THEN lightMap
    ELSE The({Propagate(map, r.lightMap, r.lightQueue, Len(queue) + 1, size) :
                 r \in {Dequeue(map, lightMap, queue, head, Len(queue), size)}})

\* the three steps on a grid and an emptied light map
Lit(map, lightMap, size, ambient, current) ==
    The({Propagate(map, g.lightMap, g.lightQueue, 1, size) :
           g \in {GatherSources(map,
                                InjectOrb(SunlightPass(map, lightMap, 0, (size * size) - 1,
                                                       ambient, size),
                                          size, current),
                                <<>>, 0, (size * size * WORLD_HEIGHT) - 1, size)}})

\* ambient is this.ambientLightLevel and current is this.currentChunkCoords at the call
calculateLighting(map, lightMap, size, ambient, current) ==
    The({Lit(m, l, size, ambient, current) : m \in {map}, l \in {lightMap}})

recalculateLighting(chunk, ambient, current) ==
    calculateLighting(chunk.map, createEmptyLightMap(chunk.size), chunk.size, ambient, current)

(***************************************************************************)
(* Bounds of the exploration and the inputs the operations are called with *)
(***************************************************************************)
\* the number of engine operations in a run
MaxOps == 3

Seeds == {<<"a">>, <<"b">>}

Directions == {"north", "south", "west", "east"}

\* the chunk coordinates MaxOps navigation steps can reach
Coords == {c \in ((0 - MaxOps)..MaxOps) \X ((0 - MaxOps)..MaxOps) : Abs(c[1]) + Abs(c[2]) <= MaxOps}

\* modifyBlock is called on the origin chunk and on its east neighbour, on the
\* cells of column (0,0)
ModChunks == {<<0, 0>>, <<1, 0>>}

ModCells == {<<0, 0, z>> : z \in 0..(WORLD_HEIGHT - 1)}

ModBlocks == {NoBlock, BlockInstance(WOODEN_PLANKS, ""), BlockInstance(LEAVES, "")}

\* TimeService.getState: the ambient light of each phase of the cycle
TimesOfDay == {"SUNRISE", "DAY", "SUNSET", "NIGHT"}

MIN_LIGHT == 4

MAX_LIGHT == 15

\* Math.round(MAX_LIGHT / 2)
HalfLight == (MAX_LIGHT + 1) \div 2

ambientLight(phase) ==
    CASE phase = "DAY" -> MAX_LIGHT
      [] phase = "NIGHT" -> MIN_LIGHT
      [] OTHER -> HalfLight

(***************************************************************************)
(* Generation is looked up in tables computed once from the operators      *)
(* above; a coordinate outside the tables is computed on the spot.         *)
(***************************************************************************)
BiomeTable ==
    Explicit([k \in Seeds \X Coords |-> getBiomeAt(k[1], k[2][1], k[2][2])])

BiomeOf(seed, x, y) ==
    IF <<seed, <<x, y>>>> \in DOMAIN BiomeTable
    THEN BiomeTable[<<seed, <<x, y>>>>]
    ELSE getBiomeAt(seed, x, y)

TerrainTable ==
    Explicit([k \in Seeds \X Coords |-> GenerateTerrain(k[1], k[2][1], k[2][2], BiomeTable[k])])

TerrainOf(seed, chunkX, chunkY, biome) ==
    IF /\ <<seed, <<chunkX, chunkY>>>> \in DOMAIN TerrainTable
       /\ biome = BiomeTable[<<seed, <<chunkX, chunkY>>>>]
    THEN TerrainTable[<<seed, <<chunkX, chunkY>>>>]
    ELSE GenerateTerrain(seed, chunkX, chunkY, biome)

(***************************************************************************)
(* Overlay application and generateChunk                                   *)
(***************************************************************************)
\* the loop over mods.entries() writing the voxel entries only: a cleared
\* entry leaves the generated voxel in the cell
RECURSIVE ApplyModifications_voxelsOnly(_, _, _, _)
ApplyModifications_voxelsOnly(map, size, mods, i) ==
    IF i > Len(mods) THEN map
    ELSE LET l == ParseKey(mods[i][1])
             block == mods[i][2]
         IN  The({ApplyModifications_voxelsOnly(m, size, mods, i + 1) :
                     m \in {IF InGrid(l[1], l[2], l[3], size) /\ block # NoBlock
                            THEN [map EXCEPT ![<<l[1], l[2], l[3]>>] = block]
                            ELSE map}})

\* the loop over mods.entries(): entries i..Len(mods) applied to map
RECURSIVE ApplyModifications(_, _, _, _)
ApplyModifications(map, size, mods, i) ==
    IF i > Len(mods) THEN map
    ELSE LET l == ParseKey(mods[i][1])
             block == mods[i][2]
         IN  The({ApplyModifications(m, size, mods, i + 1) :
                     m \in {IF InGrid(l[1], l[2], l[3], size)
                            THEN [map EXCEPT ![<<l[1], l[2], l[3]>>] = block]
                            ELSE map}})

\* a generateChunk whose terrain depends on the engine's state: away from
\* full daylight the columns are left empty above the bedrock
generateChunk_byDaylight(seed, chunkX, chunkY, biome, modifications, ambient, current) ==
    LET chunkKey == getChunkKey(chunkX, chunkY)
        terrain == TerrainOf(seed, chunkX, chunkY, biome)
        filled == IF ambient = MAX_LIGHT THEN terrain.map
                  ELSE Explicit([c \in DOMAIN terrain.map |->
                                    IF c[3] = 0 THEN terrain.map[c] ELSE NoBlock])
        map == IF MapHas(modifications, chunkKey)
               THEN ApplyModifications(filled, terrain.size, MapGet(modifications, chunkKey), 1)
               ELSE filled
    IN  [map |-> map,
         lightMap |-> calculateLighting(map, createEmptyLightMap(terrain.size), terrain.size,
                                        ambient, current),
         size |-> terrain.size,
         biome |-> biome,
         coordX |-> chunkX,
         coordY |-> chunkY,
         hasCacheCanvas |-> FALSE,
         isDirty |-> TRUE,
         lastCameraHash |-> <<>>]

\* generateChunk: terrain, overlay, lighting.  modifications is
\* this.chunkModifications, ambient and current are this.ambientLightLevel and
\* this.currentChunkCoords when the chunk is generated.
generateChunk(seed, chunkX, chunkY, biome, modifications, ambient, current) ==
    LET chunkKey == getChunkKey(chunkX, chunkY)
        overlaid(terrain) ==
            IF MapHas(modifications, chunkKey)
            THEN ApplyModifications(terrain.map, terrain.size, MapGet(modifications, chunkKey), 1)
            ELSE terrain.map
        newChunk(map, size) ==
            [map |-> map,
             lightMap |-> calculateLighting(map, createEmptyLightMap(size), size, ambient, current),
             size |-> size,
             biome |-> biome,
             coordX |-> chunkX,
             coordY |-> chunkY,
             hasCacheCanvas |-> FALSE,
             isDirty |-> TRUE,
             lastCameraHash |-> <<>>]
    IN  The({The({newChunk(map, terrain.size) : map \in {overlaid(terrain)}}) :
               terrain \in {TerrainOf(seed, chunkX, chunkY, biome)}})

\* calculateLighting reads BLOCK_DEFINITIONS[block.type].lightEmission of every
\* block of the grid: a block whose type is no BlockType makes it throw a
\* TypeError, and generateChunk with it
generationThrows(seed, chunkX, chunkY, biome, modifications) ==
    LET chunkKey == getChunkKey(chunkX, chunkY)
        overlaid(terrain) ==
            IF MapHas(modifications, chunkKey)
            THEN ApplyModifications(terrain.map, terrain.size, MapGet(modifications, chunkKey), 1)
            ELSE terrain.map
        untyped(map, size) ==
            \E c \in Cells(size) :
                /\ map[c] # NoBlock
                /\ map[c].type \notin DOMAIN BLOCK_DEFINITIONS
    IN  The({The({untyped(map, terrain.size) : map \in {overlaid(terrain)}}) :
               terrain \in {TerrainOf(seed, chunkX, chunkY, biome)}})

\* a cache that holds one chunk: a miss drops what was cached
loadChunk_evicting(cache, seed, x, y, modifications, ambient, current) ==
    LET key == getChunkKey(x, y)
    IN  IF key \in DOMAIN cache THEN cache
        ELSE (key :> generateChunk(seed, x, y, BiomeOf(seed, x, y),
                                   modifications, ambient, current))

\* loadChunk: the cache after the call (a Map from chunk key to chunk)
loadChunk(cache, seed, x, y, modifications, ambient, current) ==
    LET key == getChunkKey(x, y)
    IN  IF key \in DOMAIN cache THEN cache
        ELSE (key :> generateChunk(seed, x, y, BiomeOf(seed, x, y),
                                   modifications, ambient, current)) @@ cache

(***************************************************************************)
(* Persistence: JSON.stringify / JSON.parse of the modification store      *)
(***************************************************************************)
JsonNull == [null |-> TRUE]

\* JSON.stringify of a BlockInstance | null: a property that is undefined is left out
ToJson(block) ==
    IF block = NoBlock THEN JsonNull
    ELSE IF block.isNatural /\ block.variant # ""
         THEN [type |-> block.type, hp |-> block.hp, isNatural |-> TRUE, variant |-> block.variant]
    ELSE IF block.isNatural
         THEN [type |-> block.type, hp |-> block.hp, isNatural |-> TRUE]
    ELSE IF block.variant # ""
         THEN [type |-> block.type, hp |-> block.hp, variant |-> block.variant]
    ELSE [type |-> block.type, hp |-> block.hp]

\* the parsed value as the engine reads it: a missing property reads as
\* undefined (NoBlockType for the type, 0 for the hp)
FromJson(j) ==
    IF j = JsonNull THEN NoBlock
    ELSE [type |-> IF "type" \in DOMAIN j THEN j.type ELSE 0 - 1,
          hp |-> IF "hp" \in DOMAIN j THEN j.hp ELSE 0,
          isNatural |-> IF "isNatural" \in DOMAIN j THEN j.isNatural ELSE FALSE,
          variant |-> IF "variant" \in DOMAIN j THEN j.variant ELSE ""]

\* a serialisation that leaves the cleared entries out
SerializeMods_withoutCleared(modMap) ==
    LET kept == SelectSeq(modMap, LAMBDA e : e[2] # NoBlock)
    IN  Explicit([i \in 1..Len(kept) |-> <<kept[i][1], ToJson(kept[i][2])>>])

\* Array.from(modMap.entries()) of one chunk, as JSON
SerializeMods(modMap) ==
    Explicit([i \in 1..Len(modMap) |-> <<modMap[i][1], ToJson(modMap[i][2])>>])

\* the text written by saveToStorage: [[chunkKey, [[voxelKey, blockData], ...]], ...]
Serialize(modifications) ==
    Explicit([i \in 1..Len(modifications) |->
                <<modifications[i][1], SerializeMods(modifications[i][2])>>])

\* new Map(entries): a later entry with a key already present replaces its value
RECURSIVE MapFromEntries(_, _, _)
MapFromEntries(entries, i, acc) ==
    IF i > Len(entries) THEN acc
    ELSE The({MapFromEntries(entries, i + 1, m) : m \in {MapSet(acc, entries[i][1], entries[i][2])}})

ParseMods(modArray) ==
    MapFromEntries(Explicit([i \in 1..Len(modArray) |->
                               <<modArray[i][1], FromJson(modArray[i][2])>>]), 1, <<>>)

\* new Map(parsed.map(([chunkKey, modArray]) => [chunkKey, new Map(modArray)]))
Deserialize(parsed) ==
    MapFromEntries(Explicit([i \in 1..Len(parsed) |-> <<parsed[i][1], ParseMods(parsed[i][2])>>]),
                   1, <<>>)

\* localStorage: per storage key (one per world seed) the item, or no item.
\* form tells what the text is: "entries" is a list of [chunkKey, list of
\* [voxelKey, blockData]] (raw holds it), the other forms are texts and
\* failures that loadFromStorage meets before it builds the Map
NoItem == [present |-> FALSE, form |-> "entries", raw |-> <<>>]

\* localStorage.getItem throws ("unreadable"), or the item is not JSON, is
\* JSON that has no map method, or is an array whose elements are not
\* iterable: JSON.parse, parsed.map or the destructuring of an element throws
Unparsed(form) == [present |-> TRUE, form |-> form, raw |-> <<>>]

Item(raw) == [present |-> TRUE, form |-> "entries", raw |-> raw]

\* loadFromStorage: the modification store of a new engine; what is thrown
\* inside the try block is caught and leaves an empty store
loadFromStorage(item) ==
    IF ~item.present THEN <<>>
    ELSE IF item.form # "entries" THEN <<>>
    ELSE Deserialize(item.raw)

(***************************************************************************)
(* Inventory (src/game/Inventory.ts): a fixed number of slots, each null   *)
(* or a stack {itemId, count}; slot i of the source is slots[i], from 0    *)
(***************************************************************************)
\* the page builds its inventory with INVENTORY_SIZE slots (35 in the source)
INVENTORY_SIZE == 3

STACK_OF_BLOCKS == 64

STACK_OF_TOOLS == 1

\* ITEMS: the registry, with the maxStack of every item it holds
ITEMS ==
    Explicit([id \in (1..9) \cup {101, 201} |->
                [id |-> id, maxStack |-> IF id = 201 THEN STACK_OF_TOOLS ELSE STACK_OF_BLOCKS]])

\* null of an InventorySlot
NoSlot == [itemId |-> 0 - 1, count |-> 0]

\* new Array(size).fill(null)
EmptySlots == Explicit([i \in 0..(INVENTORY_SIZE - 1) |-> NoSlot])

\* this.size of an inventory whose slots are given
SizeOf(inventory) == Cardinality(DOMAIN inventory)

\* the reduce of removeItem over slots 0..last: the count of itemId held
RECURSIVE totalCount(_, _, _)
totalCount(inventory, itemId, last) ==
    IF last < 0 THEN 0
    ELSE totalCount(inventory, itemId, last - 1)
            + (IF inventory[last] # NoSlot /\ inventory[last].itemId = itemId
               THEN inventory[last].count ELSE 0)

\* an addItem that leaves the stacks it finds as they are
StackExisting_skipped(inventory, itemId, remainingCount, i) ==
    [slots |-> inventory, remainingCount |-> remainingCount]

\* addItem, loop 1 from slot i on: the stacks of itemId that are not full are
\* topped up, in slot order, while something remains
RECURSIVE StackExisting(_, _, _, _)
StackExisting(inventory, itemId, remainingCount, i) ==
    IF ~(i < SizeOf(inventory) /\ remainingCount > 0)
    THEN [slots |-> inventory, remainingCount |-> remainingCount]
    ELSE LET slot == inventory[i]
             canAdd == ITEMS[itemId].maxStack - slot.count
             toAdd == Min(remainingCount, canAdd)
         IN  IF slot # NoSlot /\ slot.itemId = itemId /\ slot.count < ITEMS[itemId].maxStack
             THEN StackExisting([inventory EXCEPT ![i].count = @ + toAdd], itemId,
                                remainingCount - toAdd, i + 1)
             ELSE StackExisting(inventory, itemId, remainingCount, i + 1)

\* addItem, loop 2 from slot i on: the empty slots are filled, in slot order,
\* while something remains
RECURSIVE FillEmpty(_, _, _, _)
FillEmpty(inventory, itemId, remainingCount, i) ==
    IF ~(i < SizeOf(inventory) /\ remainingCount > 0)
    THEN [slots |-> inventory, remainingCount |-> remainingCount]
    ELSE LET toAdd == Min(remainingCount, ITEMS[itemId].maxStack)
         IN  IF inventory[i] = NoSlot
             THEN FillEmpty([inventory EXCEPT ![i] = [itemId |-> itemId, count |-> toAdd]],
                            itemId, remainingCount - toAdd, i + 1)
             ELSE FillEmpty(inventory, itemId, remainingCount, i + 1)

\* addItem(itemId, count): the slots after the call and the value returned
addItem(inventory, itemId, count) ==
    IF itemId \notin DOMAIN ITEMS THEN [slots |-> inventory, returned |-> FALSE]
    ELSE LET stacked == StackExisting(inventory, itemId, count, 0)
             filled == FillEmpty(stacked.slots, itemId, stacked.remainingCount, 0)
         IN  [slots |-> filled.slots, returned |-> filled.remainingCount = 0]

\* removeItemFromSlot(slotIndex, count)
removeItemFromSlot(inventory, slotIndex, count) ==
    IF slotIndex < 0 \/ slotIndex >= SizeOf(inventory) THEN [slots |-> inventory, returned |-> FALSE]
    ELSE IF inventory[slotIndex] = NoSlot \/ inventory[slotIndex].count < count
    THEN [slots |-> inventory, returned |-> FALSE]
    ELSE [slots |-> IF inventory[slotIndex].count - count <= 0
                    THEN [inventory EXCEPT ![slotIndex] = NoSlot]
                    ELSE [inventory EXCEPT ![slotIndex].count = @ - count],
          returned |-> TRUE]

\* removeItem, the loop from slot i down: the stacks of itemId are emptied,
\* the farthest first, while something remains to remove
RECURSIVE TakeFromStacks(_, _, _, _)
TakeFromStacks(inventory, itemId, remainingToRemove, i) ==
    IF ~(i >= 0 /\ remainingToRemove > 0) THEN inventory
    ELSE LET slot == inventory[i]
             toRemove == Min(remainingToRemove, slot.count)
         IN  IF slot # NoSlot /\ slot.itemId = itemId
             THEN TakeFromStacks(IF slot.count - toRemove <= 0
                                 THEN [inventory EXCEPT ![i] = NoSlot]
                                 ELSE [inventory EXCEPT ![i].count = @ - toRemove],
                                 itemId, remainingToRemove - toRemove, i - 1)
             ELSE TakeFromStacks(inventory, itemId, remainingToRemove, i - 1)

\* a removeItem that takes what there is without counting first
removeItem_unchecked(inventory, itemId, count) ==
    [slots |-> TakeFromStacks(inventory, itemId, count, SizeOf(inventory) - 1),
     returned |-> TRUE]

\* removeItem(itemId, count): the slots after the call and the value returned
removeItem(inventory, itemId, count) ==
    IF totalCount(inventory, itemId, SizeOf(inventory) - 1) < count
    THEN [slots |-> inventory, returned |-> FALSE]
    ELSE [slots |-> TakeFromStacks(inventory, itemId, count, SizeOf(inventory) - 1),
          returned |-> TRUE]

(***************************************************************************)
(* The engine's state                                                      *)
(***************************************************************************)
VARIABLES
    worldSeed,            \* the seed the engine was built with
    chunks,               \* the chunk cache: chunk key -> chunk
    chunkModifications,   \* the modification store: chunk key -> (voxel key -> block | null)
    currentChunkCoords,
    currentChunk,         \* the key of the chunk object this.currentChunk refers to
    visitedChunks,
    camera,               \* angle, pitch and zoom, in units of 0.00001
    renderHeight,
    ambientLightLevel,
    timeOfDay,            \* the phase the TimeService's clock is in
    autoSaveInterval,     \* TRUE while the auto-save timer is set
    mode, hoveredBlock, hoveredFace, selectedBlockType, mouseX, mouseY,
    isMining, miningTarget, isInputDown,
    localStorage,         \* storage key -> item
    opsLeft,              \* operations left in this run
    lastOp,               \* the operation that led to this state
    firstGenerated,       \* size, biome and grid of the first generation of (seed, chunk) without overlay
    savedStore,           \* per storage key, the modification store at the last write that succeeded
    outdated,             \* chunks whose cached bitmap predates a mutation or a render-height change
    events,               \* the callbacks the engine has fired, in order
    held,                 \* the voxel mined without interruption and the render() calls since
    thrown,               \* the error the constructor raised, "" when the engine was built
    timers,               \* the removals scheduled with window.setTimeout that have not fired
    slots                 \* the slots of the page's Inventory: a stack, or null

world == <<worldSeed, chunks, chunkModifications, currentChunkCoords, currentChunk, visitedChunks>>

view == <<camera, renderHeight>>

clock == <<ambientLightLevel, timeOfDay>>

interaction == <<mode, hoveredBlock, hoveredFace, selectedBlockType, mouseX, mouseY,
                 isMining, miningTarget, isInputDown>>

session == <<events, held, thrown, timers, slots>>

vars == <<world, view, clock, autoSaveInterval, interaction, localStorage,
          opsLeft, lastOp, firstGenerated, savedStore, outdated, session>>

\* `isoworld_save_${this.worldSeed}`
getStorageKey(seed) == <<"isoworld_save_">> \o seed

StorageKeys == {getStorageKey(seed) : seed \in Seeds}

\* null of a Point3D
NoPoint == <<>>

\* null of a BlockType
NoBlockType == 0 - 1

\* the key prerenderChunk stores: angle, pitch and zoom with toFixed(4)
toFixed4(v) == (v + 5) \div 10

CameraHash(cam) == <<toFixed4(cam.angle), toFixed4(cam.pitch), toFixed4(cam.zoom)>>

\* Math.PI in units of 0.00001
PI == 314159

\* the field initialisers
InitialCamera == [angle |-> PI \div 4, pitch |-> PI \div 6, zoom |-> 100000]

InitialAmbient == 15

\* the record of an operation: its name and arguments, the chunk it worked on,
\* whether it generated that chunk (and not for the first time), the keys
\* cached and the chunks clean before it, and whether it rebuilt a bitmap
Op(name, args, key, generated, regenerated, cached, rebuilt) ==
    [name |-> name, args |-> args, key |-> key, generated |-> generated,
     regenerated |-> regenerated, cached |-> cached, rebuilt |-> rebuilt]

OverlayEmpty(modifications, chunkKey) ==
    ~MapHas(modifications, chunkKey) \/ Len(MapGet(modifications, chunkKey)) = 0

Logged(log, seed, chunkKey) == \E r \in log : r.seed = seed /\ r.key = chunkKey

\* the log of first generations after chunk has been generated under modifications
LogGeneration(log, seed, chunkKey, chunk, modifications) ==
    IF ~OverlayEmpty(modifications, chunkKey) \/ Logged(log, seed, chunkKey) THEN log
    ELSE log \cup {[seed |-> seed, key |-> chunkKey, size |-> chunk.size,
                    biome |-> chunk.biome, map |-> chunk.map]}

\* the chunks that hold a cached bitmap
WithCanvas(cache) == {k \in DOMAIN cache : cache[k].hasCacheCanvas}

(***************************************************************************)
(* new IsoEngine(canvas, seed): field initialisers, loadFromStorage,       *)
(* startAutoSave, loadChunk(0, 0)                                          *)
(***************************************************************************)
\* nobody is mining
NotHeld == [target |-> NoPoint, type |-> NoBlockType, durability |-> 0, ticks |-> 0]

\* a constructor that asks for the 2D context last: the store is loaded and
\* the auto-save timer is set when it throws
Constructed_contextLast(seed, storage, context) ==
    LET modifications == loadFromStorage(storage[getStorageKey(seed)])
        origin == [x |-> 0, y |-> 0]
    IN  IF generationThrows(seed, 0, 0, BiomeOf(seed, 0, 0), modifications)
        THEN [chunkModifications |-> modifications, chunks |-> <<>>,
              currentChunkCoords |-> origin, visitedChunks |-> {getChunkKey(0, 0)},
              autoSaveInterval |-> TRUE, thrown |-> "TypeError"]
        ELSE [chunkModifications |-> modifications,
              chunks |-> IF context
                         THEN loadChunk(<<>>, seed, 0, 0, modifications, InitialAmbient, origin)
                         ELSE <<>>,
              currentChunkCoords |-> origin, visitedChunks |-> {getChunkKey(0, 0)},
              autoSaveInterval |-> TRUE,
              thrown |-> IF context THEN "" ELSE "Could not get 2D context."]

\* context is FALSE when canvas.getContext('2d') gives null: the constructor
\* throws before loadFromStorage; it throws after startAutoSave when the
\* generation of chunk (0,0) does
Constructed(seed, storage, context) ==
    LET modifications == loadFromStorage(storage[getStorageKey(seed)])
        origin == [x |-> 0, y |-> 0]
    IN  IF ~context
        THEN [chunkModifications |-> <<>>, chunks |-> <<>>, currentChunkCoords |-> origin,
              visitedChunks |-> {}, autoSaveInterval |-> FALSE,
              thrown |-> "Could not get 2D context."]
        ELSE IF generationThrows(seed, 0, 0, BiomeOf(seed, 0, 0), modifications)
        THEN [chunkModifications |-> modifications, chunks |-> <<>>,
              currentChunkCoords |-> origin, visitedChunks |-> {getChunkKey(0, 0)},
              autoSaveInterval |-> TRUE, thrown |-> "TypeError"]
        ELSE [chunkModifications |-> modifications,
              chunks |-> loadChunk(<<>>, seed, 0, 0, modifications, InitialAmbient, origin),
              currentChunkCoords |-> origin, visitedChunks |-> {getChunkKey(0, 0)},
              autoSaveInterval |-> TRUE, thrown |-> ""]

EngineStarts(seed, e) ==
    /\ worldSeed = seed
    /\ chunkModifications = e.chunkModifications
    /\ chunks = e.chunks
    /\ currentChunkCoords = e.currentChunkCoords
    /\ currentChunk = getChunkKey(0, 0)
    /\ visitedChunks = e.visitedChunks
    /\ camera = InitialCamera
    /\ renderHeight = WORLD_HEIGHT
    /\ ambientLightLevel = InitialAmbient
    /\ timeOfDay = "DAY"
    /\ autoSaveInterval = e.autoSaveInterval
    /\ thrown = e.thrown
    /\ events = <<>>
    /\ held = NotHeld
    /\ timers = {}
    /\ mode = "CAMERA"
    /\ hoveredBlock = NoPoint
    /\ hoveredFace = NoPoint
    /\ selectedBlockType = NoBlockType
    /\ mouseX = 0 - 1
    /\ mouseY = 0 - 1
    /\ isMining = FALSE
    /\ miningTarget = NoPoint
    /\ isInputDown = FALSE

Init ==
    /\ localStorage = Explicit([k \in StorageKeys |-> NoItem])
    /\ savedStore = Explicit([k \in StorageKeys |-> [present |-> FALSE, store |-> <<>>]])
    /\ \E seed \in Seeds :
          \E e \in {Constructed(seed, localStorage, TRUE)} :
              /\ EngineStarts(seed, e)
              /\ firstGenerated = LogGeneration({}, seed, getChunkKey(0, 0),
                                                e.chunks[getChunkKey(0, 0)], e.chunkModifications)
    /\ slots = EmptySlots
    /\ opsLeft = MaxOps
    /\ lastOp = Op("init", <<>>, getChunkKey(0, 0), TRUE, FALSE, {}, FALSE)
    /\ outdated = {}

\* one more operation of the run
Budget == opsLeft > 0 /\ opsLeft' = opsLeft - 1

\* one more operation of the engine; there is none when the constructor threw
Tick == thrown = "" /\ Budget

\* the page is loaded again: a new engine is built over the same localStorage,
\* on a canvas that gives a 2D context or on one that gives none
Construct(seed, context) ==
    \E e \in {Constructed(seed, localStorage, context)} :
    LET key == getChunkKey(0, 0)
        built == e.thrown = ""
    IN  /\ Budget
        /\ worldSeed' = seed
        /\ chunkModifications' = e.chunkModifications
        /\ chunks' = e.chunks
        /\ currentChunkCoords' = e.currentChunkCoords
        /\ currentChunk' = key
        /\ visitedChunks' = e.visitedChunks
        /\ camera' = InitialCamera
        /\ renderHeight' = WORLD_HEIGHT
        /\ ambientLightLevel' = InitialAmbient
        /\ timeOfDay' = "DAY"
        /\ autoSaveInterval' = e.autoSaveInterval
        /\ thrown' = e.thrown
        /\ timers' = {}
        /\ events' = <<>>
        /\ held' = NotHeld
        /\ mode' = "CAMERA"
        /\ hoveredBlock' = NoPoint
        /\ hoveredFace' = NoPoint
        /\ selectedBlockType' = NoBlockType
        /\ mouseX' = 0 - 1
        /\ mouseY' = 0 - 1
        /\ isMining' = FALSE
        /\ miningTarget' = NoPoint
        /\ isInputDown' = FALSE
        /\ lastOp' = Op("new", <<seed, context>>, key, built,
                        built /\ Logged(firstGenerated, seed, key), {}, FALSE)
        /\ firstGenerated' = IF built
                             THEN LogGeneration(firstGenerated, seed, key, e.chunks[key],
                                                e.chunkModifications)
                             ELSE firstGenerated
        /\ outdated' = {}
        /\ UNCHANGED <<localStorage, savedStore, slots>>

\* a new engine on a canvas that gives a 2D context
New(seed) == Construct(seed, TRUE)

\* the switch of navigateTo: a coordinate that points north-west for
\* every direction
Moved_diagonally(coords, direction) ==
    [x |-> coords.x - 1, y |-> coords.y - 1]

\* the switch of navigateTo
Moved(coords, direction) ==
    CASE direction = "north" -> [coords EXCEPT !.y = @ - 1]
      [] direction = "south" -> [coords EXCEPT !.y = @ + 1]
      [] direction = "west" -> [coords EXCEPT !.x = @ - 1]
      [] direction = "east" -> [coords EXCEPT !.x = @ + 1]

\* navigateTo(direction); the second argument recorded is the value returned
NavigateTo(direction) ==
    \E coords \in {Moved(currentChunkCoords, direction)} :
    \E cache \in {loadChunk(chunks, worldSeed, coords.x, coords.y, chunkModifications,
                            ambientLightLevel, coords)} :
    LET key == getChunkKey(coords.x, coords.y)
    IN  /\ Tick
        /\ currentChunkCoords' = coords
        /\ chunks' = cache
        /\ currentChunk' = key
        /\ visitedChunks' = visitedChunks \cup {key}
        /\ hoveredBlock' = NoPoint
        /\ hoveredFace' = NoPoint
        /\ isMining' = FALSE
        /\ miningTarget' = NoPoint
        /\ held' = NotHeld
        /\ lastOp' = Op("navigateTo", <<direction, coords>>, key, key \notin DOMAIN chunks,
                        key \notin DOMAIN chunks /\ Logged(firstGenerated, worldSeed, key),
                        DOMAIN chunks, FALSE)
        /\ firstGenerated' = IF key \in DOMAIN chunks THEN firstGenerated
                             ELSE LogGeneration(firstGenerated, worldSeed, key, cache[key],
                                                chunkModifications)
        /\ UNCHANGED <<worldSeed, chunkModifications, view, clock, autoSaveInterval,
                       mode, selectedBlockType, mouseX, mouseY, isInputDown,
                       localStorage, savedStore, outdated, events, thrown, timers, slots>>

\* the keys markNeighborChunksDirty looks up
NeighborKeys(cx, cy) ==
    {getChunkKey(cx + 1, cy), getChunkKey(cx - 1, cy), getChunkKey(cx, cy + 1), getChunkKey(cx, cy - 1)}

markNeighborChunksDirty(cache, cx, cy) ==
    Explicit([k \in DOMAIN cache |->
                IF k \in NeighborKeys(cx, cy) THEN [cache[k] EXCEPT !.isDirty = TRUE]
                ELSE cache[k]])

\* a modifyBlock that forgets the store
Recorded_nowhere(modifications, chunkKey, voxelKey, block) ==
    modifications

\* the store after chunkMods.set(voxelKey, block)
Recorded(modifications, chunkKey, voxelKey, block) ==
    LET chunkMods == IF MapHas(modifications, chunkKey) THEN MapGet(modifications, chunkKey)
                     ELSE <<>>
    IN  MapSet(modifications, chunkKey, MapSet(chunkMods, voxelKey, block))

\* loadedChunk.map[z][y][x] = block: a cell the arrays did not hold is added
Patched(map, x, y, z, block) ==
    (<<x, y, z>> :> block) @@ map

\* modifyBlock(chunkX, chunkY, x, y, z, block): what the call does to the engine
modifyBlock(chunkX, chunkY, x, y, z, block) ==
    LET chunkKey == getChunkKey(chunkX, chunkY)
        patch(loadedChunk) ==
            LET map == Patched(loadedChunk.map, x, y, z, block)
            IN  [loadedChunk EXCEPT
                    !.map = map,
                    !.lightMap = recalculateLighting([loadedChunk EXCEPT !.map = map],
                                                     ambientLightLevel, currentChunkCoords),
                    !.isDirty = TRUE]
    IN  /\ chunkModifications' =
              Recorded(chunkModifications, chunkKey, getVoxelKey(x, y, z), block)
        /\ chunks' = IF chunkKey \in DOMAIN chunks
                     THEN markNeighborChunksDirty(
                              [chunks EXCEPT ![chunkKey] = patch(chunks[chunkKey])],
                              chunkX, chunkY)
                     ELSE chunks
        /\ outdated' = (outdated \cup {chunkKey} \cup NeighborKeys(chunkX, chunkY))
                          \cap WithCanvas(chunks)
        /\ held' = IF chunkKey = currentChunk /\ <<x, y, z>> = held.target THEN NotHeld ELSE held

\* a call of modifyBlock
ModifyBlock(chunkX, chunkY, x, y, z, block) ==
    /\ Tick
    /\ modifyBlock(chunkX, chunkY, x, y, z, block)
    /\ lastOp' = Op("modifyBlock", <<chunkX, chunkY, x, y, z, block>>,
                    getChunkKey(chunkX, chunkY), FALSE, FALSE, DOMAIN chunks, FALSE)
    /\ UNCHANGED <<worldSeed, currentChunkCoords, currentChunk, visitedChunks, view, clock,
                   autoSaveInterval, interaction, localStorage, firstGenerated, savedStore,
                   events, thrown, timers, slots>>

\* a clearSave that leaves the cached chunk of the current coordinate in place
clearSave_keepsChunk(storage, cache, seed, coords, ambient) ==
    [storage |-> [storage EXCEPT ![getStorageKey(seed)] = NoItem],
     chunkModifications |-> <<>>,
     chunks |-> cache]

\* clearSave: localStorage, the modification store and the cache after the
\* call; coords and ambient are this.currentChunkCoords and
\* this.ambientLightLevel
clearSave(storage, cache, seed, coords, ambient) ==
    [storage |-> [storage EXCEPT ![getStorageKey(seed)] = NoItem],
     chunkModifications |-> <<>>,
     chunks |-> loadChunk(Explicit([k \in DOMAIN cache \ {getChunkKey(coords.x, coords.y)}
                                      |-> cache[k]]),
                          seed, coords.x, coords.y, <<>>, ambient, coords)]

\* clearSave(); the argument recorded is the number of chunk records dropped
ClearSave ==
    \E cleared \in {clearSave(localStorage, chunks, worldSeed, currentChunkCoords,
                              ambientLightLevel)} :
    LET key == getChunkKey(currentChunkCoords.x, currentChunkCoords.y)
    IN  /\ Tick
        /\ localStorage' = cleared.storage
        /\ chunkModifications' = cleared.chunkModifications
        /\ chunks' = cleared.chunks
        /\ currentChunk' = key
        /\ lastOp' = Op("clearSave", <<Len(chunkModifications)>>, key, TRUE,
                        Logged(firstGenerated, worldSeed, key), DOMAIN chunks, FALSE)
        /\ firstGenerated' = LogGeneration(firstGenerated, worldSeed, key, cleared.chunks[key], <<>>)
        /\ savedStore' = [savedStore EXCEPT ![getStorageKey(worldSeed)] =
                             [present |-> FALSE, store |-> <<>>]]
        /\ outdated' = outdated \ {key}
        /\ held' = NotHeld
        /\ UNCHANGED <<worldSeed, currentChunkCoords, visitedChunks, view, clock,
                       autoSaveInterval, interaction, events, thrown, timers, slots>>

\* a saveToStorage that lets the error of the write escape
saveToStorage_rethrows(storage, seed, modifications, written) ==
    IF written
    THEN [storage |-> [storage EXCEPT ![getStorageKey(seed)] = Item(Serialize(modifications))],
          thrown |-> ""]
    ELSE [storage |-> storage, thrown |-> "QuotaExceededError"]

\* saveToStorage: localStorage after the call and the error that leaves the
\* call; written is FALSE when localStorage.setItem throws (the quota is
\* exceeded), which the catch block logs
saveToStorage(storage, seed, modifications, written) ==
    IF written
    THEN [storage |-> [storage EXCEPT ![getStorageKey(seed)] = Item(Serialize(modifications))],
          thrown |-> ""]
    ELSE [storage |-> storage, thrown |-> ""]

\* saveToStorage(), called by the page and by the auto-save timer; the timer
\* that a constructor set before it threw calls it too
SaveToStorage(written) ==
    \E saved \in {saveToStorage(localStorage, worldSeed, chunkModifications, written)} :
    /\ Budget
    /\ thrown = "" \/ autoSaveInterval
    /\ localStorage' = saved.storage
    /\ thrown' = IF saved.thrown = "" THEN thrown ELSE saved.thrown
    /\ savedStore' = IF written
                     THEN [savedStore EXCEPT ![getStorageKey(worldSeed)] =
                              [present |-> TRUE, store |-> chunkModifications]]
                     ELSE savedStore
    /\ lastOp' = Op("saveToStorage", <<written>>, <<>>, FALSE, FALSE, DOMAIN chunks, FALSE)
    /\ UNCHANGED <<world, view, clock, autoSaveInterval, interaction, firstGenerated, outdated,
                   events, held, timers, slots>>

\* the auto-save timer fires: the callback of startAutoSave calls saveToStorage
AutoSave(written) ==
    \E saved \in {saveToStorage(localStorage, worldSeed, chunkModifications, written)} :
    /\ Budget
    /\ autoSaveInterval
    /\ localStorage' = saved.storage
    /\ thrown' = IF saved.thrown = "" THEN thrown ELSE saved.thrown
    /\ savedStore' = IF written
                     THEN [savedStore EXCEPT ![getStorageKey(worldSeed)] =
                              [present |-> TRUE, store |-> chunkModifications]]
                     ELSE savedStore
    /\ lastOp' = Op("autoSave", <<written>>, <<>>, FALSE, FALSE, DOMAIN chunks, FALSE)
    /\ UNCHANGED <<world, view, clock, autoSaveInterval, interaction, firstGenerated, outdated,
                   events, held, timers, slots>>

\* a dispose that saves and leaves the timer set
dispose_keepsTimer(storage, seed, modifications, interval, written) ==
    The({[storage |-> saved.storage, autoSaveInterval |-> interval, thrown |-> saved.thrown] :
           saved \in {saveToStorage(storage, seed, modifications, written)}})

\* dispose: localStorage and the timer after the call and the error that
\* leaves it; interval is this.autoSaveInterval !== null at the call
dispose(storage, seed, modifications, interval, written) ==
    The({[storage |-> saved.storage, autoSaveInterval |-> FALSE, thrown |-> saved.thrown] :
           saved \in {saveToStorage(storage, seed, modifications, written)}})

\* dispose(), called by the page when it drops the engine
Dispose(written) ==
    \E disposed \in {dispose(localStorage, worldSeed, chunkModifications, autoSaveInterval,
                             written)} :
    /\ Tick
    /\ localStorage' = disposed.storage
    /\ autoSaveInterval' = disposed.autoSaveInterval
    /\ savedStore' = IF written
                     THEN [savedStore EXCEPT ![getStorageKey(worldSeed)] =
                              [present |-> TRUE, store |-> chunkModifications]]
                     ELSE savedStore
    /\ lastOp' = Op("dispose", <<written>>, <<>>, FALSE, FALSE, DOMAIN chunks, FALSE)
    /\ UNCHANGED <<world, view, clock, interaction, firstGenerated, outdated, session>>

\* prerenderChunk(chunk): the bitmap is rebuilt
prerenderChunk(chunk, cam) ==
    [chunk EXCEPT !.hasCacheCanvas = TRUE, !.lastCameraHash = CameraHash(cam), !.isDirty = FALSE]

\* render(time): the clock has advanced into phase t
Render(t) ==
    LET chunk == chunks[currentChunk]
        rebuild == chunk.isDirty \/ chunk.lastCameraHash # CameraHash(camera)
    IN  /\ Tick
        /\ timeOfDay' = t
        /\ ambientLightLevel' = ambientLight(t)
        /\ chunks' = IF rebuild
                     THEN [chunks EXCEPT ![currentChunk] = prerenderChunk(chunk, camera)]
                     ELSE chunks
        /\ outdated' = IF rebuild THEN outdated \ {currentChunk} ELSE outdated
        /\ held' = IF isMining THEN [held EXCEPT !.ticks = @ + 1] ELSE held
        /\ lastOp' = Op("render", <<t>>, currentChunk, FALSE, FALSE, DOMAIN chunks, rebuild)
        /\ UNCHANGED <<worldSeed, chunkModifications, currentChunkCoords, currentChunk,
                       visitedChunks, view, autoSaveInterval, interaction, localStorage,
                       firstGenerated, savedStore, events, thrown, timers, slots>>

\* the JavaScript remainder: the sign of the result is the sign of a
Rem(a, b) == IF a >= 0 THEN a % b ELSE 0 - ((0 - a) % b)

\* setCamera(partial): the fields given replace the camera's, the angle is
\* wrapped and the pitch is clamped to [0.1, PI / 2]
SetCamera(partial) ==
    LET merged == [f \in DOMAIN camera |->
                      IF f \in DOMAIN partial THEN partial[f] ELSE camera[f]]
    IN  /\ Tick
        /\ camera' = [angle |-> Rem(merged.angle + (PI * 2), PI * 2),
                      pitch |-> Max(10000, Min(PI \div 2, merged.pitch)),
                      zoom |-> merged.zoom]
        /\ lastOp' = Op("setCamera", <<partial>>, currentChunk, FALSE, FALSE, DOMAIN chunks, FALSE)
        /\ UNCHANGED <<world, renderHeight, clock, autoSaveInterval, interaction, localStorage,
                       firstGenerated, savedStore, outdated, session>>

\* setRenderHeight(height)
SetRenderHeight(height) ==
    /\ Tick
    /\ renderHeight' = Max(1, Min(WORLD_HEIGHT, height))
    /\ chunks' = Explicit([k \in DOMAIN chunks |-> [chunks[k] EXCEPT !.isDirty = TRUE]])
    /\ outdated' = IF renderHeight' # renderHeight THEN WithCanvas(chunks) ELSE outdated
    /\ lastOp' = Op("setRenderHeight", <<height>>, currentChunk, FALSE, FALSE, DOMAIN chunks, FALSE)
    /\ UNCHANGED <<worldSeed, chunkModifications, currentChunkCoords, currentChunk, visitedChunks,
                   camera, clock, autoSaveInterval, interaction, localStorage,
                   firstGenerated, savedStore, session>>

\* setMode(mode)
SetMode(m) ==
    /\ thrown = ""
    /\ mode' = m
    /\ isMining' = FALSE
    /\ miningTarget' = NoPoint
    /\ held' = NotHeld
    /\ lastOp' = Op("setMode", <<m>>, currentChunk, FALSE, FALSE, DOMAIN chunks, FALSE)
    /\ UNCHANGED <<world, view, clock, autoSaveInterval, hoveredBlock, hoveredFace,
                   selectedBlockType, mouseX, mouseY, isInputDown, localStorage, opsLeft,
                   firstGenerated, savedStore, outdated, events, thrown, timers, slots>>

\* engine.selectedBlockType = selectedBlock (src/components/WorldMap.tsx)
SelectBlock(t) ==
    /\ thrown = ""
    /\ selectedBlockType' = t
    /\ lastOp' = Op("selectBlock", <<t>>, currentChunk, FALSE, FALSE, DOMAIN chunks, FALSE)
    /\ UNCHANGED <<world, view, clock, autoSaveInterval, mode, hoveredBlock, hoveredFace,
                   mouseX, mouseY, isMining, miningTarget, isInputDown, localStorage, opsLeft,
                   firstGenerated, savedStore, outdated, session>>

\* updateMousePosition(x, y)
UpdateMousePosition(x, y) ==
    /\ thrown = ""
    /\ mouseX' = x
    /\ mouseY' = y
    /\ lastOp' = Op("updateMousePosition", <<x, y>>, currentChunk, FALSE, FALSE, DOMAIN chunks, FALSE)
    /\ UNCHANGED <<world, view, clock, autoSaveInterval, mode, hoveredBlock, hoveredFace,
                   selectedBlockType, isMining, miningTarget, isInputDown, localStorage, opsLeft,
                   firstGenerated, savedStore, outdated, session>>

\* performHitTest: the cells the pointer's ray can stop at, for some pointer
\* position and camera: a cell below the render limit that holds a block; no
\* cell when the ray meets no block
Hits(chunk, limit) ==
    {NoPoint} \cup {c \in Cells(chunk.size) : c[3] < limit /\ BlockAt(chunk.map, c[1], c[2], c[3]) # NoBlock}

\* handleInput(isDown); hit is the cell performHitTest finds
HandleInput(isDown, hit) ==
    LET tested == mode = "EDIT" /\ isDown
        found == IF mouseX = 0 - 1 THEN NoPoint ELSE hit
        started == mode = "EDIT" /\ isDown /\ found # NoPoint
        block == BlockAt(chunks[currentChunk].map, found[1], found[2], found[3])
    IN  /\ thrown = ""
        /\ hit \in Hits(chunks[currentChunk], Min(WORLD_HEIGHT, renderHeight))
        /\ isInputDown' = isDown
        /\ hoveredBlock' = IF tested THEN found ELSE hoveredBlock
        /\ hoveredFace' = IF tested /\ mouseX # 0 - 1
                          THEN (IF found = NoPoint THEN NoPoint ELSE <<0, 0, 1>>)
                          ELSE hoveredFace
        /\ isMining' = IF mode # "EDIT" THEN isMining
                       ELSE IF isDown THEN (found # NoPoint \/ isMining) ELSE FALSE
        /\ miningTarget' = IF mode # "EDIT" THEN miningTarget
                           ELSE IF isDown THEN (IF found # NoPoint THEN found ELSE miningTarget)
                           ELSE NoPoint
        /\ held' = IF started
                   THEN [target |-> found, type |-> block.type, durability |-> block.hp,
                         ticks |-> 0]
                   ELSE IF mode = "EDIT" /\ ~isDown THEN NotHeld
                   ELSE held
        /\ lastOp' = Op("handleInput", <<isDown, hit>>, currentChunk, FALSE, FALSE, DOMAIN chunks, FALSE)
        /\ UNCHANGED <<world, view, clock, autoSaveInterval, mode, selectedBlockType, mouseX,
                       mouseY, localStorage, opsLeft, firstGenerated, savedStore, outdated,
                       events, thrown, timers, slots>>

\* a placeBlock without the occupancy check
Accepts_occupied(chunk, n) ==
    InGrid(n[1], n[2], n[3], chunk.size)

\* the bounds check and the occupancy check of placeBlock on the target cell n
Accepts(chunk, n) ==
    /\ InGrid(n[1], n[2], n[3], chunk.size)
    /\ BlockAt(chunk.map, n[1], n[2], n[3]) = NoBlock

\* placeBlock(); the arguments recorded are whether the block was placed and
\* the target cell
PlaceBlock ==
    LET n == <<hoveredBlock[1] + hoveredFace[1], hoveredBlock[2] + hoveredFace[2],
               hoveredBlock[3] + hoveredFace[3]>>
        aimed ==
            /\ mode = "EDIT" /\ hoveredBlock # NoPoint /\ hoveredFace # NoPoint
            /\ selectedBlockType # NoBlockType /\ selectedBlockType # AIR
        placed == aimed /\ Accepts(chunks[currentChunk], n)
    IN  /\ Tick
        /\ IF placed
           THEN /\ modifyBlock(currentChunkCoords.x, currentChunkCoords.y, n[1], n[2], n[3],
                               BlockInstance(selectedBlockType, ""))
                /\ events' = Append(events, <<"onBlockPlaced", selectedBlockType>>)
           ELSE UNCHANGED <<chunkModifications, chunks, outdated, held, events>>
        /\ lastOp' = Op("placeBlock", <<placed, IF aimed THEN n ELSE NoPoint>>, currentChunk,
                        FALSE, FALSE, DOMAIN chunks, FALSE)
        /\ UNCHANGED <<worldSeed, currentChunkCoords, currentChunk, visitedChunks, view, clock,
                       autoSaveInterval, interaction, localStorage, firstGenerated, savedStore,
                       thrown, timers, slots>>

(***************************************************************************)
(* The page's inventory                                                    *)
(***************************************************************************)
\* inventory.addItem(itemId, count); the value returned is recorded
AddItem(itemId, count) ==
    \E r \in {addItem(slots, itemId, count)} :
        /\ Budget
        /\ slots' = r.slots
        /\ lastOp' = Op("addItem", <<itemId, count, r.returned>>, <<>>, FALSE, FALSE,
                        DOMAIN chunks, FALSE)
        /\ UNCHANGED <<world, view, clock, autoSaveInterval, interaction, localStorage,
                       firstGenerated, savedStore, outdated, events, held, thrown, timers>>

\* inventory.removeItem(itemId, count)
RemoveItem(itemId, count) ==
    \E r \in {removeItem(slots, itemId, count)} :
        /\ Budget
        /\ slots' = r.slots
        /\ lastOp' = Op("removeItem", <<itemId, count, r.returned>>, <<>>, FALSE, FALSE,
                        DOMAIN chunks, FALSE)
        /\ UNCHANGED <<world, view, clock, autoSaveInterval, interaction, localStorage,
                       firstGenerated, savedStore, outdated, events, held, thrown, timers>>

\* inventory.removeItemFromSlot(slotIndex, count)
RemoveItemFromSlot(slotIndex, count) ==
    \E r \in {removeItemFromSlot(slots, slotIndex, count)} :
        /\ Budget
        /\ slots' = r.slots
        /\ lastOp' = Op("removeItemFromSlot", <<slotIndex, count, r.returned>>, <<>>, FALSE, FALSE,
                        DOMAIN chunks, FALSE)
        /\ UNCHANGED <<world, view, clock, autoSaveInterval, interaction, localStorage,
                       firstGenerated, savedStore, outdated, events, held, thrown, timers>>

(***************************************************************************)
(* Structures.  The stamps and the placement of generateChunk run on a     *)
(* map m given by the height of its ground (grass over dirt over bedrock)  *)
(* and by the voxels the stamps have written over it; m also carries the   *)
(* chunk's generator and the places the stamps were called at.             *)
(***************************************************************************)
\* what map[z]?.[y]?.[x] gives for a cell outside the arrays
NoCell == 0 - 2

\* the surface height of column (x, y) before any stamp
Ground(m, x, y) ==
    IF m.ground = "slope" THEN m.surfaceZ + (x \div 8) ELSE m.surfaceZ

\* the map before placement: the generator has drawn the chunk's size
TerrainMap(seed, chunkX, chunkY, size, height, ground, surfaceZ) ==
    [size |-> size, height |-> height, ground |-> ground, surfaceZ |-> surfaceZ,
     written |-> <<>>, placed |-> {},
     prng |-> next(SeededRandom(seed \o <<"_">> \o getChunkKey(chunkX, chunkY))).seed]

\* map[z]?.[y]?.[x]: the type of the block, NoBlockType for null
Voxel(m, x, y, z) ==
    IF <<x, y, z>> \in DOMAIN m.written THEN m.written[<<x, y, z>>]
    ELSE IF x < 0 \/ x >= m.size \/ y < 0 \/ y >= m.size \/ z < 0 \/ z >= m.height THEN NoCell
    ELSE IF z > Ground(m, x, y) THEN NoBlockType
    ELSE IF z = 0 THEN BEDROCK
    ELSE IF z = Ground(m, x, y) THEN GRASS
    ELSE DIRT

\* map[z][y][x] = { type, hp, isNatural: true }
Put(m, x, y, z, type) ==
    The({[m EXCEPT !.written = w] : w \in {(<<x, y, z>> :> type) @@ m.written}})

\* if (map[z]?.[y]?.[x] === null) map[z][y][x] = { type, ... }
PutIfNull(m, x, y, z, type) ==
    IF Voxel(m, x, y, z) = NoBlockType THEN Put(m, x, y, z, type) ELSE m

\* prng.next(): the map with its generator advanced, and the numerator of the draw
Drawn(m) ==
    The({[m |-> [m EXCEPT !.prng = d.seed], u |-> d.u] : d \in {next(m.prng)}})

\* for (let i = lo; i <= hi; i++) m = Body(m, i)
RECURSIVE ForEach(_, _, _, _)
ForEach(Body(_, _), m, lo, hi) ==
    IF lo > hi THEN m
    ELSE IF lo = hi THEN Body(m, lo)
    ELSE The({ForEach(Body, half, ((lo + hi) \div 2) + 1, hi) :
                 half \in {ForEach(Body, m, lo, (lo + hi) \div 2)}})

\* the scan from the top for the first cell that is not null
SurfaceOf(m, x, y) ==
    LET zs == {c[3] : c \in {d \in DOMAIN m.written : d[1] = x /\ d[2] = y}}
                 \cup {Ground(m, x, y)}
    IN  CHOOSE z \in zs : \A o \in zs : o <= z

\* the cells of a set in the order the z, y, x loops meet them
RECURSIVE InScanOrder(_)
InScanOrder(cells) ==
    IF cells = {} THEN <<>>
    ELSE LET first == CHOOSE c \in cells : \A d \in cells :
                          \/ c[3] < d[3]
                          \/ c[3] = d[3] /\ c[2] < d[2]
                          \/ c[3] = d[3] /\ c[2] = d[2] /\ c[1] <= d[1]
         IN  <<first>> \o InScanOrder(cells \ {first})

\* potentialVineLocations: the cell under every leaf of the box that has
\* null under it, as <<x, y, z - 1>>
potentialVineLocations(m, x0, x1, y0, y1, z0, z1) ==
    InScanOrder({<<c[1], c[2], c[3] - 1>> :
                    c \in {d \in DOMAIN m.written :
                              /\ d[1] >= x0 /\ d[1] <= x1 /\ d[2] >= y0 /\ d[2] <= y1
                              /\ d[3] >= z0 /\ d[3] <= z1
                              /\ m.written[d] = LEAVES
                              /\ Voxel(m, d[1], d[2], d[3] - 1) = NoBlockType}})

\* the loop over vineLength: a vine hangs down until the ground or a block
RECURSIVE hangVine(_, _, _, _, _)
hangVine(m, x, y, vineZ, left) ==
    IF left = 0 THEN m
    ELSE IF vineZ > 0 /\ Voxel(m, x, y, vineZ) = NoBlockType
         THEN hangVine(Put(m, x, y, vineZ, VINE), x, y, vineZ - 1, left - 1)
         ELSE m

\* generateIceSpike(map, x, y, startZ, chunkSize, prng)
generateIceSpike(m0, x, y, startZ) ==
    The({LET spikeHeight == 12 + FloorMul(d.u, 15)
             tipZ == startZ + spikeHeight
             shaft(m, i) ==
                 PutIfNull(m, x + ((i % 4) \div 2), y + (i % 2), startZ + (i \div 4), ICE)
             tip(m, i) ==
                 LET dy == (i \div 4) - 1
                     dx == (i % 4) - 1
                 IN  IF (dx = 0 - 1 \/ dx = 2) /\ (dy = 0 - 1 \/ dy = 2) THEN m
                     ELSE PutIfNull(m, x + dx, y + dy, tipZ, ICE)
         IN  IF \/ x + 3 >= d.m.size \/ y + 3 >= d.m.size \/ x - 1 < 0 \/ y - 1 < 0
                \/ startZ + spikeHeight + 4 >= d.m.height
             THEN d.m
             ELSE PutIfNull(ForEach(tip, ForEach(shaft, d.m, 0, (4 * spikeHeight) - 1), 0, 15),
                            x, y, tipZ + 1, ICE) :
           d \in {Drawn(m0)}})

\* growSpruceTree(map, x, y, startZ, chunkSize, prng, minHeight, maxHeight)
growSpruceTree(m0, x, y, startZ, minHeight, maxHeight) ==
    The({LET treeHeight == minHeight + FloorMul(d.u, maxHeight - minHeight + 1)
             trunk(m, h) ==
                 IF startZ + h < m.height THEN Put(m, x, y, startZ + h, SPRUCE_LOG) ELSE m
             layer(m, k) ==
                 LET lz == (startZ + treeHeight) - k
                     currentRadius == Min(2, (k \div 2) + 1)
                     leaf(t, i) ==
                         LET ly == (y - currentRadius) + (i \div ((2 * currentRadius) + 1))
                             lx == (x - currentRadius) + (i % ((2 * currentRadius) + 1))
                             write(s) ==
                                 IF ly >= 0 /\ ly < s.size /\ lx >= 0 /\ lx < s.size
                                 THEN PutIfNull(s, lx, ly, lz, SPRUCE_LEAVES)
                                 ELSE s
                         IN  IF Abs(lx - x) = currentRadius /\ Abs(ly - y) = currentRadius
                             THEN The({IF FloorMul(e.u, 4) >= 1 /\ e.u # <<16384, 0>>
                                       THEN e.m ELSE write(e.m) : e \in {Drawn(t)}})
                             ELSE write(t)
                 IN  ForEach(leaf, m, 0,
                             (((2 * currentRadius) + 1) * ((2 * currentRadius) + 1)) - 1)
         IN  IF startZ + treeHeight + 1 >= d.m.height THEN d.m
             ELSE ForEach(layer, ForEach(trunk, d.m, 0, treeHeight - 1), 0, treeHeight - 1) :
           d \in {Drawn(m0)}})

\* potentialVineLocations.forEach: a draw under chance / 100 hangs a vine of
\* 2 + floor(next * treeHeight * tenths / 10) cells, unless the place is
\* within the given reach of the trunk at (x, y)
hangVines(m0, positions, chance, tenths, treeHeight, x, y, reach) ==
    LET each(m, i) ==
            The({IF FloorMul(d.u, 100) >= chance THEN d.m
                 ELSE IF /\ reach
                         /\ positions[i][1] >= x - 2 /\ positions[i][1] <= x + 3
                         /\ positions[i][2] >= y - 2 /\ positions[i][2] <= y + 3
                      THEN d.m
                      ELSE The({hangVine(e.m, positions[i][1], positions[i][2], positions[i][3],
                                         2 + (FloorMul(e.u, tenths * treeHeight) \div 10)) :
                                   e \in {Drawn(d.m)}}) :
                   d \in {Drawn(m)}})
    IN  ForEach(each, m0, 1, Len(positions))

\* growJungleTree(map, x, y, startZ, chunkSize, prng, minHeight, maxHeight)
growJungleTree(m0, x, y, startZ, minHeight, maxHeight) ==
    The({LET treeHeight == minHeight + FloorMul(d.u, maxHeight - minHeight + 1)
             canopyCenterZ == startZ + treeHeight
             trunk(m, i) ==
                 Put(m, x + ((i % 4) \div 2), y + (i % 2), startZ + (i \div 4), LOG)
             leaf(m, i) ==
                 LET lz == (canopyCenterZ - 2) + (i \div 64)
                     ly == (y - 3) + ((i % 64) \div 8)
                     lx == (x - 3) + (i % 8)
                     dx == lx - x
                     dy == ly - y
                     dz == lz - canopyCenterZ
                     \* 10 * (distSq - 0.5), distSq being measured from (x + 0.5, y + 0.5)
                     tenDistSq == 10 * (((dx * dx) - dx) + ((dy * dy) - dy) + (dz * dz))
                 IN  The({IF FloorMul(e.u, 80) >= tenDistSq - 107
                          THEN IF /\ lz < e.m.height /\ ly >= 0 /\ ly < e.m.size
                                  /\ lx >= 0 /\ lx < e.m.size
                               THEN PutIfNull(e.m, lx, ly, lz, LEAVES)
                               ELSE e.m
                          ELSE e.m : e \in {Drawn(m)}})
         IN  IF \/ x + 1 >= d.m.size \/ y + 1 >= d.m.size
                \/ startZ + treeHeight + 5 >= d.m.height
             THEN d.m
             ELSE The({hangVines(c, potentialVineLocations(c, x - 4, x + 5, y - 4, y + 5,
                                                          startZ, canopyCenterZ + 2),
                                 10, 6, treeHeight, x, y, TRUE) :
                          c \in {ForEach(leaf, ForEach(trunk, d.m, 0, (4 * treeHeight) - 1),
                                         0, 319)}}) :
           d \in {Drawn(m0)}})

\* growRegularTree(map, x, y, startZ, chunkSize, prng, minHeight, maxHeight, hasVines)
growRegularTree(m0, x, y, startZ, minHeight, maxHeight, hasVines) ==
    The({LET treeHeight == minHeight + FloorMul(d.u, maxHeight - minHeight + 1)
             leaveStart == (startZ + treeHeight) - 1
             trunk(m, h) ==
                 IF startZ + h < m.height THEN Put(m, x, y, startZ + h, LOG) ELSE m
             leaf(m, i) ==
                 LET lz == leaveStart + (i \div 9)
                     ly == (y - 1) + ((i % 9) \div 3)
                     lx == (x - 1) + (i % 3)
                     write(s) ==
                         IF /\ lz < s.height /\ ly >= 0 /\ ly < s.size
                            /\ lx >= 0 /\ lx < s.size
                         THEN PutIfNull(s, lx, ly, lz, LEAVES)
                         ELSE s
                 IN  IF lz = leaveStart /\ lx = x /\ ly = y THEN m
                     ELSE IF Abs(lx - x) = 1 /\ Abs(ly - y) = 1
                          THEN The({IF FloorMul(e.u, 5) >= 2 /\ lz # leaveStart THEN e.m
                                    ELSE IF lz = leaveStart + 2 THEN e.m
                                    ELSE write(e.m) : e \in {Drawn(m)}})
                          ELSE write(m)
             top(m) ==
                 IF startZ + treeHeight < m.height
                 THEN Put(m, x, y, startZ + treeHeight, LEAVES)
                 ELSE m
         IN  IF startZ + treeHeight + 2 >= d.m.height THEN d.m
             ELSE The({IF hasVines
                       THEN hangVines(c, potentialVineLocations(c, x - 2, x + 2, y - 2, y + 2,
                                                                leaveStart, leaveStart + 2),
                                      25, 7, treeHeight, x, y, FALSE)
                       ELSE c :
                          c \in {top(ForEach(leaf, ForEach(trunk, d.m, 0, treeHeight - 1),
                                             0, 26))}}) :
           d \in {Drawn(m0)}})

\* the switch of generateChunk: minTreeHeight, maxTreeHeight, treeChance in
\* thousandths, placeTrees and hasVines of a biome
Planting(biome) ==
    CASE biome = "SNOW" ->
            [minTreeHeight |-> 4, maxTreeHeight |-> 8, treeChance |-> 15,
             placeTrees |-> TRUE, hasVines |-> FALSE]
      [] biome = "JUNGLE" ->
            [minTreeHeight |-> 15, maxTreeHeight |-> 25, treeChance |-> 0,
             placeTrees |-> TRUE, hasVines |-> TRUE]
      [] biome = "PRAIRIE" ->
            [minTreeHeight |-> 2, maxTreeHeight |-> 4, treeChance |-> 5,
             placeTrees |-> TRUE, hasVines |-> FALSE]
      [] biome = "DESERT" ->
            [minTreeHeight |-> 0, maxTreeHeight |-> 0, treeChance |-> 0,
             placeTrees |-> FALSE, hasVines |-> FALSE]
      [] OTHER ->
            [minTreeHeight |-> 3, maxTreeHeight |-> 6, treeChance |-> 10,
             placeTrees |-> TRUE, hasVines |-> FALSE]

\* growTree: the stamp of the biome; the place it is called at is recorded
growTree(m, x, y, startZ, minHeight, maxHeight, hasVines, biome) ==
    The({IF biome = "JUNGLE" THEN growJungleTree(s, x, y, startZ, minHeight, maxHeight)
         ELSE IF biome = "SNOW" THEN growSpruceTree(s, x, y, startZ, minHeight, maxHeight)
         ELSE growRegularTree(s, x, y, startZ, minHeight, maxHeight, hasVines) :
           s \in {[m EXCEPT !.placed = @ \cup {<<x, y>>}]}})

\* a placement that has no safe zone
isProtected_nowhere(isCenterChunk, size, x, y) ==
    FALSE

\* the Orb Protection Check: centerX = centerY = size / 2, distSq < 36, and
\* the quarter in front of the orb
isProtected(isCenterChunk, size, x, y) ==
    /\ isCenterChunk
    /\ \/ (((2 * x) - size) * ((2 * x) - size)) + (((2 * y) - size) * ((2 * y) - size)) < 4 * 36
       \/ 2 * x > size /\ 2 * y > size

\* the loops over y and x in 2 .. size - 4 that plant a tree with treeChance
\* on the surface types given
plantTrees(m0, biome, isCenterChunk, soil) ==
    LET p == Planting(biome)
        span == m0.size - 5
        column(m, i) ==
            LET y == 2 + (i \div span)
                x == 2 + (i % span)
            IN  IF isProtected(isCenterChunk, m.size, x, y) THEN m
                ELSE The({IF FloorMul(d.u, 1000) >= p.treeChance THEN d.m
                          ELSE The({IF surfaceZ > 0 /\ Voxel(d.m, x, y, surfaceZ) \in soil
                                    THEN growTree(d.m, x, y, surfaceZ + 1, p.minTreeHeight,
                                                  p.maxTreeHeight, p.hasVines, biome)
                                    ELSE d.m : surfaceZ \in {SurfaceOf(d.m, x, y)}}) :
                            d \in {Drawn(m)}})
    IN  ForEach(column, m0, 0, (span * span) - 1)

\* the loop over numSpikes
placeSpikes(m0, isCenterChunk) ==
    The({LET numSpikes == 4 + FloorMul(n.u, 6)
             spike(m, i) ==
                 The({The({LET x == 3 + FloorMul(dx.u, m.size - 6)
                               y == 3 + FloorMul(dy.u, m.size - 6)
                           IN  IF isProtected(isCenterChunk, m.size, x, y) THEN dy.m
                               ELSE The({IF /\ surfaceZ > 0
                                            /\ Voxel(dy.m, x, y, surfaceZ) \notin {ICE, NoBlockType}
                                         THEN generateIceSpike(
                                                  [dy.m EXCEPT !.placed = @ \cup {<<x, y>>}],
                                                  x, y, surfaceZ + 1)
                                         ELSE dy.m : surfaceZ \in {SurfaceOf(dy.m, x, y)}}) :
                             dy \in {Drawn(dx.m)}}) :
                       dx \in {Drawn(m)}})
         IN  ForEach(spike, n.m, 1, numSpikes) :
           n \in {Drawn(m0)}})

\* the while loop of the jungle: treesPlaced < numTrees && attempts < maxAttempts
RECURSIVE plantJungle(_, _, _, _, _)
plantJungle(m, isCenterChunk, treesPlaced, attempts, numTrees) ==
    IF ~(treesPlaced < numTrees /\ attempts < numTrees * 15) THEN m
    ELSE The({The({
           LET x == 3 + FloorMul(dx.u, m.size - 8)
               y == 3 + FloorMul(dy.u, m.size - 8)
               p == Planting("JUNGLE")
           IN  IF isProtected(isCenterChunk, m.size, x, y)
               THEN plantJungle(dy.m, isCenterChunk, treesPlaced, attempts + 1, numTrees)
               ELSE The({
                      IF surfaceZ <= 0
                      THEN plantJungle(dy.m, isCenterChunk, treesPlaced, attempts + 1, numTrees)
                      ELSE IF \A c \in {0, 1} \X {0, 1} :
                                 /\ Voxel(dy.m, x + c[1], y + c[2], surfaceZ) = GRASS
                                 /\ Voxel(dy.m, x + c[1], y + c[2], surfaceZ + 1)
                                       \in {NoBlockType, NoCell}
                           THEN The({plantJungle(grown, isCenterChunk, treesPlaced + 1,
                                                 attempts + 1, numTrees) :
                                        grown \in {growTree(dy.m, x, y, surfaceZ + 1,
                                                            p.minTreeHeight, p.maxTreeHeight,
                                                            p.hasVines, "JUNGLE")}})
                           ELSE plantJungle(dy.m, isCenterChunk, treesPlaced, attempts + 1,
                                            numTrees) :
                        surfaceZ \in {SurfaceOf(dy.m, x, y)}}) :
             dy \in {Drawn(dx.m)}}) :
           dx \in {Drawn(m)}})

\* the structure placement of generateChunk on the map m
placeStructures(m, biome, chunkX, chunkY) ==
    LET isCenterChunk == chunkX = 0 /\ chunkY = 0
    IN  IF ~Planting(biome).placeTrees THEN m
        ELSE IF biome = "SNOW"
             THEN The({IF FloorMul(d.u, 10) < 6 THEN placeSpikes(d.m, isCenterChunk)
                       ELSE plantTrees(d.m, biome, isCenterChunk, {GRASS, DIRT}) :
                         d \in {Drawn(m)}})
        ELSE IF biome = "JUNGLE"
             THEN The({plantJungle(d.m, isCenterChunk, 0, 0,
                                   8 + Cardinality({j \in 1..4 : FloorMul(d.u, 25) >= j * j})) :
                         d \in {Drawn(m)}})
        ELSE plantTrees(m, biome, isCenterChunk, {GRASS})

\* growTree as the placement calls it, at column (x, y) of a chunk whose ground
\* is flat at startZ - 1, as the first operation of a run; the voxels written
\* are recorded
GrowTree(biome, chunkX, chunkY, size, height, x, y, startZ) ==
    /\ Tick /\ opsLeft = MaxOps
    /\ \E m \in {growTree(TerrainMap(worldSeed, chunkX, chunkY, size, height, "flat", startZ - 1),
                          x, y, startZ, Planting(biome).minTreeHeight,
                          Planting(biome).maxTreeHeight, Planting(biome).hasVines, biome)} :
        /\ lastOp' = Op("growTree", <<biome, chunkX, chunkY, m.size, m.height, m.written, m.placed>>,
                        currentChunk, FALSE, FALSE, DOMAIN chunks, FALSE)
        /\ UNCHANGED <<world, view, clock, autoSaveInterval, interaction, localStorage,
                       firstGenerated, savedStore, outdated, session>>

\* generateIceSpike as the placement calls it, as the first operation of a run
GenerateIceSpike(chunkX, chunkY, size, height, x, y, startZ) ==
    /\ Tick /\ opsLeft = MaxOps
    /\ \E m \in {generateIceSpike(
                     [TerrainMap(worldSeed, chunkX, chunkY, size, height, "flat", startZ - 1)
                         EXCEPT !.placed = {<<x, y>>}], x, y, startZ)} :
        /\ lastOp' = Op("generateIceSpike",
                        <<"SNOW", chunkX, chunkY, m.size, m.height, m.written, m.placed>>,
                        currentChunk, FALSE, FALSE, DOMAIN chunks, FALSE)
        /\ UNCHANGED <<world, view, clock, autoSaveInterval, interaction, localStorage,
                       firstGenerated, savedStore, outdated, session>>

\* the structure placement of generateChunk for chunk (chunkX, chunkY), as the
\* first operation of a run: the origin chunk has the biome getBiomeAt gives
\* it; the voxels written and the places of the stamps are recorded
PlaceStructures(biome, chunkX, chunkY, size, height, ground, surfaceZ) ==
    /\ Tick /\ opsLeft = MaxOps
    /\ (chunkX = 0 /\ chunkY = 0) => biome = getBiomeAt(worldSeed, 0, 0)
    /\ \E m \in {placeStructures(TerrainMap(worldSeed, chunkX, chunkY, size, height, ground,
                                            surfaceZ), biome, chunkX, chunkY)} :
        /\ lastOp' = Op("placeStructures",
                        <<biome, chunkX, chunkY, m.size, m.height, m.written, m.placed>>,
                        currentChunk, FALSE, FALSE, DOMAIN chunks, FALSE)
        /\ UNCHANGED <<world, view, clock, autoSaveInterval, interaction, localStorage,
                       firstGenerated, savedStore, outdated, session>>

(***************************************************************************)
(* Terrain fill on columns and chunks of the source's proportions          *)
(***************************************************************************)
\* the column fill of generateChunk on cell z of a column whose surface is
\* at surfaceHeight, with n3d the cave noise at the cell, as the first
\* operation of a run; the block filled in is recorded
FillColumnCell(surfaceHeight, z, n3d) ==
    /\ Tick /\ opsLeft = MaxOps
    /\ \E block \in {FillCell(z, surfaceHeight, n3d, DIRT, BlockInstance(GRASS, ""))} :
        /\ lastOp' = Op("fillCell", <<surfaceHeight, z, n3d, block>>, currentChunk, FALSE, FALSE,
                        DOMAIN chunks, FALSE)
        /\ UNCHANGED <<world, view, clock, autoSaveInterval, interaction, localStorage,
                       firstGenerated, savedStore, outdated, session>>

\* the border blending of generateChunk on the surface of column (x, y) of a
\* chunk of the given size and biome whose neighbours' biomes are nb, as the
\* first operation of a run; the surface block is recorded
BlendSurface(nb, biome, size, x, y) ==
    /\ Tick /\ opsLeft = MaxOps
    /\ \E block \in {SurfaceBlock(worldSeed, nb, biome, size, x, y)} :
        /\ lastOp' = Op("blendSurface", <<nb, biome, size, x, y, block>>, currentChunk, FALSE,
                        FALSE, DOMAIN chunks, FALSE)
        /\ UNCHANGED <<world, view, clock, autoSaveInterval, interaction, localStorage,
                       firstGenerated, savedStore, outdated, session>>

(***************************************************************************)
(* The engine under every operation that changes the world or the view     *)
(***************************************************************************)
\* modifyBlock is called on the origin chunk and on its east neighbour, on
\* the two lower cells of column (0,0)
EditCells == {<<0, 0, 0>>, <<0, 0, 1>>}

EditBlocks == {NoBlock, BlockInstance(WOODEN_PLANKS, "")}

Phases == {"DAY", "NIGHT"}

\* setCamera is called with a new angle and with a zoom below the key's resolution
Cameras == {[angle |-> 0 - (PI \div 4)], [zoom |-> 100004]}

Heights == {0, WORLD_HEIGHT}

Next ==
    \/ \E seed \in Seeds : New(seed)
    \/ \E direction \in Directions : NavigateTo(direction)
    \/ \E c \in ModChunks, cell \in EditCells, block \in EditBlocks :
          ModifyBlock(c[1], c[2], cell[1], cell[2], cell[3], block)
    \/ ClearSave
    \/ \E written \in BOOLEAN : SaveToStorage(written)
    \/ \E t \in Phases : Render(t)
    \/ \E partial \in Cameras : SetCamera(partial)
    \/ \E height \in Heights : SetRenderHeight(height)

Spec == Init /\ [][Next]_vars

(***************************************************************************)
(* Generation: engines built and rebuilt, chunks generated, dropped from   *)
(* the cache and generated again, at every time of day                     *)
(***************************************************************************)
NextGen ==
    \/ \E seed \in Seeds : New(seed)
    \/ \E direction \in Directions : NavigateTo(direction)
    \/ ClearSave
    \/ \E t \in TimesOfDay : Render(t)
    \/ ModifyBlock(0, 0, 0, 0, 1, NoBlock)

SpecGen == Init /\ [][NextGen]_vars

(***************************************************************************)
(* Persistence: edits, saves, and engines built over what was saved        *)
(***************************************************************************)
PersistCells == {<<0, 0, 1>>, <<MAX_CHUNK_SIZE, 0, 1>>}

PersistBlocks == {NoBlock, BlockInstance(WOODEN_PLANKS, ""), BlockInstance(GRASS, "SNOWY")}

NextPersist ==
    \/ \E c \in ModChunks, cell \in PersistCells, block \in PersistBlocks :
          ModifyBlock(c[1], c[2], cell[1], cell[2], cell[3], block)
    \/ \E written \in BOOLEAN : SaveToStorage(written)
    \/ \E seed \in Seeds : New(seed)
    \/ NavigateTo("east")
    \/ ClearSave

SpecPersist == Init /\ [][NextPersist]_vars

(***************************************************************************)
(* Lighting: the origin chunk's column (0,0) edited at every time of day,  *)
(* from the origin chunk and from its neighbours                           *)
(***************************************************************************)
NextLight ==
    \/ \E cell \in ModCells, block \in ModBlocks :
          ModifyBlock(0, 0, cell[1], cell[2], cell[3], block)
    \/ \E t \in TimesOfDay : Render(t)
    \/ \E direction \in {"west", "east"} : NavigateTo(direction)

SpecLight == Init /\ [][NextLight]_vars

(***************************************************************************)
(* Editing: the pointer, the mode, the hotbar and placeBlock               *)
(***************************************************************************)
Modes == {"CAMERA", "EDIT"}

Hotbar == {NoBlockType, AIR, WOODEN_PLANKS}

NextEdit ==
    \/ \E m \in Modes : SetMode(m)
    \/ \E t \in Hotbar : SelectBlock(t)
    \/ UpdateMousePosition(1, 1)
    \/ \E isDown \in BOOLEAN, hit \in {NoPoint} \cup ModCells : HandleInput(isDown, hit)
    \/ PlaceBlock

SpecEdit == Init /\ [][NextEdit]_vars

(***************************************************************************)
(* Play: the player walks east and west, points at the surface voxel of     *)
(* column (0,0), places planks on it, removes voxels and clears the save   *)
(***************************************************************************)
NextPlay ==
    \/ \E direction \in {"west", "east"} : NavigateTo(direction)
    \/ \E c \in ModChunks : ModifyBlock(c[1], c[2], 0, 0, 1, NoBlock)
    \/ PlaceBlock
    \/ ClearSave
    \/ SetMode("EDIT")
    \/ SelectBlock(WOODEN_PLANKS)
    \/ UpdateMousePosition(1, 1)
    \/ HandleInput(TRUE, <<0, 0, 1>>)

SpecPlay == Init /\ [][NextPlay]_vars

(***************************************************************************)
(* Start: engines built on canvases with and without a 2D context, over a  *)
(* localStorage that holds what was saved or what something else left      *)
(***************************************************************************)
\* block data that is an object with no type
Untyped == [hp |-> 3]

\* items that are not what saveToStorage writes: the read throws, the text
\* is not JSON, the JSON is an object, the JSON is an array of numbers, and
\* a well-nested list whose block data has no type
CorruptItems ==
    {Unparsed("unreadable"), Unparsed("not JSON"), Unparsed("object"), Unparsed("numbers"),
     Item(<<(<<getChunkKey(0, 0), <<(<<getVoxelKey(0, 0, 1), Untyped>>)>> >>)>>)}

\* something other than the engine writes the item of a storage key
Tamper(key, item) ==
    /\ Budget
    /\ localStorage' = [localStorage EXCEPT ![key] = item]
    /\ lastOp' = Op("setItem", <<key, item.form>>, <<>>, FALSE, FALSE, DOMAIN chunks, FALSE)
    /\ UNCHANGED <<world, view, clock, autoSaveInterval, interaction, firstGenerated,
                   savedStore, outdated, session>>

NextStart ==
    \/ \E seed \in Seeds, context \in BOOLEAN : Construct(seed, context)
    \/ \E seed \in Seeds, item \in CorruptItems : Tamper(getStorageKey(seed), item)
    \/ ModifyBlock(0, 0, 0, 0, 1, NoBlock)
    \/ SaveToStorage(TRUE)

SpecStart == Init /\ [][NextStart]_vars

(***************************************************************************)
(* Mining: the player presses on the surface voxel of column (0,0) and     *)
(* holds while frames are rendered; the voxel is a worn one, or is removed *)
(***************************************************************************)
\* the durability a worn voxel has left
WornHp == 2

Worn == [type |-> LEAVES, hp |-> WornHp, isNatural |-> FALSE, variant |-> ""]

NextMine ==
    \/ \E m \in Modes : SetMode(m)
    \/ UpdateMousePosition(1, 1)
    \/ \E isDown \in BOOLEAN, hit \in {NoPoint, <<0, 0, 1>>} : HandleInput(isDown, hit)
    \/ \E block \in {NoBlock, Worn} : ModifyBlock(0, 0, 0, 0, 1, block)
    \/ Render("DAY")
    \/ NavigateTo("east")

SpecMine == Init /\ [][NextMine]_vars

(***************************************************************************)
(* Inventory: stacks of planks and sticks and single tools added to and    *)
(* taken from the slots                                                    *)
(***************************************************************************)
\* stone, sticks, the wooden pickaxe, and an id the registry does not hold
ItemIds == {1, 101, 201, 0}

AddCounts == {1, 2, STACK_OF_BLOCKS - 1, STACK_OF_BLOCKS + 1}

RemoveCounts == {0, 1, 2, STACK_OF_BLOCKS}

NextInventory ==
    \/ \E itemId \in ItemIds, count \in AddCounts : AddItem(itemId, count)
    \/ \E itemId \in ItemIds, count \in RemoveCounts : RemoveItem(itemId, count)
    \/ \E slotIndex \in 0..INVENTORY_SIZE, count \in {1, 2} : RemoveItemFromSlot(slotIndex, count)

SpecInventory == Init /\ [][NextInventory]_vars

(***************************************************************************)
(* Teardown: edits, the auto-save timer, dispose, and engines built after  *)
(***************************************************************************)
NextTeardown ==
    \/ \E c \in ModChunks, block \in EditBlocks : ModifyBlock(c[1], c[2], 0, 0, 1, block)
    \/ \E written \in BOOLEAN : AutoSave(written)
    \/ \E written \in BOOLEAN : Dispose(written)
    \/ \E seed \in Seeds : New(seed)

SpecTeardown == Init /\ [][NextTeardown]_vars

(***************************************************************************)
(* Terrain: the column fill over columns deep enough for caves, and the    *)
(* border blending over a chunk wide enough to have columns off the band   *)
(***************************************************************************)
\* the height of the columns filled
ColumnHeight == 16

\* cave noise inside the tunnel band, on its edge and outside it
NoiseSamples == {0 - 999, 0 - 160, 0 - 159, 0, 159, 160, 999}

\* the edge length of the chunk blended
BlendSize == 13

\* the biomes of the north, south, west and east neighbours
NeighbourBiomes ==
    {<<"GRASSLAND", "GRASSLAND", "GRASSLAND", "GRASSLAND">>,
     <<"DESERT", "GRASSLAND", "JUNGLE", "PRAIRIE">>,
     <<"GRASSLAND", "PRAIRIE", "GRASSLAND", "SNOW">>,
     <<"JUNGLE", "SNOW", "DESERT", "GRASSLAND">>,
     <<"SNOW", "DESERT", "SNOW", "DESERT">>}

BlendedBiomes == {"GRASSLAND", "DESERT", "SNOW"}

NextTerrain ==
    \/ \E surfaceHeight \in 1..(ColumnHeight - 1), z \in 0..(ColumnHeight - 1),
          n3d \in NoiseSamples : FillColumnCell(surfaceHeight, z, n3d)
    \/ \E nb \in NeighbourBiomes, biome \in BlendedBiomes, x \in 0..(BlendSize - 1),
          y \in 0..(BlendSize - 1) : BlendSurface(nb, biome, BlendSize, x, y)

SpecTerrain == Init /\ [][NextTerrain]_vars

(***************************************************************************)
(* Felling: trunk voxels as the tree stamps write them are put into column *)
(* (0,0) of the origin chunk and removed again, frames passing in between  *)
(***************************************************************************)
\* the voxel growRegularTree writes for a trunk
Trunk == [type |-> LOG, hp |-> BLOCK_DEFINITIONS[LOG].hp, isNatural |-> TRUE, variant |-> ""]

TrunkCells == {1, 2}

FellBlocks == {NoBlock, Trunk, BlockInstance(WOODEN_PLANKS, "")}

NextFell ==
    \/ \E z \in TrunkCells, block \in FellBlocks : ModifyBlock(0, 0, 0, 0, z, block)
    \/ Render("DAY")

SpecFell == Init /\ [][NextFell]_vars

(***************************************************************************)
(* Structures: the stamps at the ends of the ranges the placement draws    *)
(* from, and the placement on the origin chunk and on a neighbour          *)
(***************************************************************************)
\* the edge length and the height of the chunks the structures are placed on
StructureSize == 30
StructureHeight == 70

StructureSizes == {StructureSize, StructureSize + 1}

\* the first and the last column the placement of a biome can choose
StampColumns(biome, size) ==
    IF biome = "JUNGLE" THEN {3, size - 6} ELSE {2, size - 4}

\* surfaces in the middle of the world and right under its top
StampFloors == {StructureHeight \div 2, StructureHeight - 25, StructureHeight - 10,
                StructureHeight - 1}

PlantedBiomes == {"GRASSLAND", "PRAIRIE", "SNOW", "JUNGLE"}

PlacedChunks == {<<0, 0>>, <<1, 0>>}

PlacedSurfaces == {StructureHeight \div 2, StructureHeight - 25}

NextStructures ==
    \/ \E biome \in PlantedBiomes, size \in StructureSizes, startZ \in StampFloors :
          \E x \in StampColumns(biome, size), y \in StampColumns(biome, size) :
              GrowTree(biome, 1, 0, size, StructureHeight, x, y, startZ)
    \/ \E size \in StructureSizes, startZ \in StampFloors :
          \E x \in {3, size - 4}, y \in {3, size - 4} :
              GenerateIceSpike(1, 0, size, StructureHeight, x, y, startZ)
    \/ \E biome \in PlantedBiomes \cup {"DESERT"}, c \in PlacedChunks, size \in StructureSizes,
          ground \in {"flat", "slope"}, surfaceZ \in PlacedSurfaces :
              PlaceStructures(biome, c[1], c[2], size, StructureHeight, ground, surfaceZ)

SpecStructures == Init /\ [][NextStructures]_vars

(***************************************************************************)
(* Properties                                                              *)
(***************************************************************************)
\* the modification record of a chunk, empty when the store has none
RecordOf(modifications, chunkKey) ==
    IF MapHas(modifications, chunkKey) THEN MapGet(modifications, chunkKey) ELSE <<>>

\* the chunk of the cache the last operation worked on
LastChunk == chunks[lastOp.key]

C2_Bedrock ==
    \A k \in DOMAIN chunks :
        \A x \in 0..(chunks[k].size - 1), y \in 0..(chunks[k].size - 1) :
            BlockAt(chunks[k].map, x, y, 0).type = BEDROCK

\* C3: the voxel grid of every cached chunk is the grid that generating its
\* coordinate from scratch and applying its current modification record gives.
C3_OverlayEquivalence ==
    \A k \in DOMAIN chunks :
        LET chunk == chunks[k]
            biome == getBiomeAt(worldSeed, chunk.coordX, chunk.coordY)
            terrain == TerrainOf(worldSeed, chunk.coordX, chunk.coordY, biome)
        IN  chunk.map = ApplyModifications(terrain.map, terrain.size,
                                           RecordOf(chunkModifications, k), 1)

\* C4: the modification store of an engine just built is the store that was
\* last saved under its seed: the same chunk keys, the same voxel keys and the
\* same voxel states, a cleared (null) entry still there as cleared; it is
\* empty when nothing is saved under the seed.
C4_RoundTrip ==
    lastOp.name = "new" =>
        LET saved == savedStore[getStorageKey(worldSeed)]
        IN  chunkModifications = (IF saved.present THEN saved.store ELSE <<>>)

\* an engine was built over a saved store that holds a cleared entry
C4_LoadedCleared ==
    /\ lastOp.name = "new"
    /\ savedStore[getStorageKey(worldSeed)].present
    /\ \E i \in 1..Len(chunkModifications) :
          \E j \in 1..Len(chunkModifications[i][2]) :
              chunkModifications[i][2][j][2] = NoBlock

\* C5: when a chunk has just been generated, every entry of its modification
\* record that lies in its grid is what the cell holds: the voxel of a voxel
\* entry, nothing for a cleared entry.  The store an engine is built with is
\* loaded before its first chunk is generated, so this holds of chunk (0,0)
\* of an engine built over a saved store.
C5_OverlayApplied ==
    lastOp.generated =>
        LET record == RecordOf(chunkModifications, lastOp.key)
        IN  \A i \in 1..Len(record) :
                LET l == ParseKey(record[i][1])
                IN  InGrid(l[1], l[2], l[3], LastChunk.size) =>
                        BlockAt(LastChunk.map, l[1], l[2], l[3]) = record[i][2]

\* an engine was built over a saved store in which a voxel that generation
\* places in chunk (0,0) is cleared
C5_RemovedVoxelLoaded ==
    /\ lastOp.name = "new"
    /\ LET record == RecordOf(chunkModifications, getChunkKey(0, 0))
           terrain == TerrainOf(worldSeed, 0, 0, getBiomeAt(worldSeed, 0, 0))
       IN  \E i \in 1..Len(record) :
               LET l == ParseKey(record[i][1])
               IN  /\ record[i][2] = NoBlock
                   /\ InGrid(l[1], l[2], l[3], terrain.size)
                   /\ BlockAt(terrain.map, l[1], l[2], l[3]) # NoBlock

\* the in-grid neighbours of a cell
NeighborsOf(c, size) ==
    {n \in {<<c[1] + directions[d][1], c[2] + directions[d][2], c[3] + directions[d][3]>> :
               d \in 1..Len(directions)} : InGrid(n[1], n[2], n[3], size)}

\* C6: in the light grid of every cached chunk, for every cell v and every
\* in-grid neighbour n of v, light(v) >= light(n) - dampening(material of v),
\* an empty cell counting as air.
C6_FixedPoint ==
    \A k \in DOMAIN chunks :
        \A v \in Cells(chunks[k].size) :
            \A n \in NeighborsOf(v, chunks[k].size) :
                chunks[k].lightMap[v] >=
                    chunks[k].lightMap[n]
                        - NeighborDampening(BlockAt(chunks[k].map, v[1], v[2], v[3]))

\* an edit has left a cell that the sun does not reach and that is lit by a
\* neighbour which is itself lit by a neighbour
C6_LitThroughTwoCells ==
    /\ lastOp.name = "modifyBlock"
    /\ lastOp.key \in DOMAIN chunks
    /\ \E v \in Cells(LastChunk.size) :
          /\ v[3] < WORLD_HEIGHT - 2
          /\ LastChunk.lightMap[v] > 0
          /\ BlockAt(LastChunk.map, v[1], v[2], v[3]) = NoBlock
          /\ BlockAt(LastChunk.map, v[1], v[2], v[3] + 1) = NoBlock
          /\ Dampening(BlockAt(LastChunk.map, v[1], v[2], v[3] + 2)) > MAX_LIGHT
          /\ LastChunk.lightMap[v] = LastChunk.lightMap[<<v[1], v[2], v[3] + 1>>] - 1
          /\ \A n \in NeighborsOf(v, LastChunk.size) :
                LastChunk.lightMap[n] <= LastChunk.lightMap[<<v[1], v[2], v[3] + 1>>]

\* C7: every value of the light grid of every cached chunk is an integer
\* from 0 to 15.
C7_LightRange ==
    \A k \in DOMAIN chunks :
        \A v \in Cells(chunks[k].size) : chunks[k].lightMap[v] \in 0..15

\* a chunk was lit again at night, through a block that stops the sunlight
C7_RelitAtNight ==
    /\ lastOp.name = "modifyBlock"
    /\ lastOp.key \in DOMAIN chunks
    /\ ambientLightLevel = MIN_LIGHT
    /\ \E v \in Cells(LastChunk.size) : LastChunk.lightMap[v] = 0

\* the landmark cell of a chunk
OrbCell(chunk) == <<chunk.size \div 2, chunk.size \div 2, OrbZ>>

\* C8: in the light grid of the origin chunk the landmark cell holds 15, and
\* the light grid of every other cached chunk is one that the lighting pass
\* computes without the landmark.
C8_Landmark ==
    \A k \in DOMAIN chunks :
        IF k = getChunkKey(0, 0)
        THEN chunks[k].lightMap[OrbCell(chunks[k])] = 15
        ELSE \E t \in TimesOfDay :
                chunks[k].lightMap =
                    calculateLighting(chunks[k].map, createEmptyLightMap(chunks[k].size),
                                      chunks[k].size, ambientLight(t),
                                      [x |-> chunks[k].coordX, y |-> chunks[k].coordY])

\* C9: when modifyBlock on chunk c has returned, the store holds the change,
\* c's grid holds it if c is loaded, c (if loaded) and every loaded chunk
\* among c's four orthogonal neighbours is dirty, and the cache holds the
\* chunks it held before.
C9_WritePath ==
    lastOp.name = "modifyBlock" =>
        LET a == lastOp.args
            record == RecordOf(chunkModifications, lastOp.key)
            voxelKey == getVoxelKey(a[3], a[4], a[5])
        IN  /\ MapHas(record, voxelKey) /\ MapGet(record, voxelKey) = a[6]
            /\ lastOp.key \in DOMAIN chunks =>
                  /\ BlockAt(LastChunk.map, a[3], a[4], a[5]) = a[6]
                  /\ LastChunk.isDirty
            /\ \A n \in NeighborKeys(a[1], a[2]) \cap DOMAIN chunks : chunks[n].isDirty
            /\ DOMAIN chunks = lastOp.cached

\* C10: when render() has drawn the current chunk's bitmap, the bitmap is not
\* older than a mutation of the chunk or of an orthogonal neighbour or than a
\* change of the render height, and its camera key is the current one; after
\* a rebuild the chunk is clean.
C10_RenderCoherent ==
    lastOp.name = "render" =>
        /\ chunks[currentChunk].hasCacheCanvas
        /\ currentChunk \notin outdated
        /\ chunks[currentChunk].lastCameraHash = CameraHash(camera)
        /\ lastOp.rebuilt => ~chunks[currentChunk].isDirty

\* an operation of the engine has just run under the name given
Ran(names) == lastOp'.name \in names /\ opsLeft' # opsLeft

\* C11: navigateTo, modifyBlock, placeBlock and clearSave leave every cached
\* coordinate in the cache; navigateTo to a cached coordinate generates
\* nothing and makes the cached chunk the current one, and to a coordinate
\* not cached it adds that coordinate alone, the other chunks as they were;
\* the other three operations add no coordinate.
C11_NoEviction ==
    [][Ran({"navigateTo", "modifyBlock", "placeBlock", "clearSave"}) =>
          /\ DOMAIN chunks \subseteq DOMAIN chunks'
          /\ IF lastOp'.name # "navigateTo" THEN DOMAIN chunks' = DOMAIN chunks
             ELSE IF lastOp'.key \in DOMAIN chunks
             THEN chunks' = chunks /\ currentChunk' = lastOp'.key
             ELSE /\ DOMAIN chunks' = DOMAIN chunks \cup {lastOp'.key}
                  /\ \A k \in DOMAIN chunks : chunks'[k] = chunks[k]]_vars

\* navigateTo has come back to a coordinate that was cached, after another
\* coordinate was generated
C11_RevisitedCached ==
    /\ lastOp.name = "navigateTo"
    /\ lastOp.key \in lastOp.cached
    /\ ~lastOp.generated
    /\ Cardinality(DOMAIN chunks) > 1

\* C12: navigateTo moves the current coordinate by one unit (north y-1,
\* south y+1, west x-1, east x+1) and returns the new coordinate; in every
\* state of a built engine the key of the current coordinate is visited,
\* every visited key is cached, and the current chunk is the cached chunk of
\* the current coordinate.
C12_Navigation ==
    /\ [](thrown = "" =>
            /\ getChunkKey(currentChunkCoords.x, currentChunkCoords.y) \in visitedChunks
            /\ visitedChunks \subseteq DOMAIN chunks
            /\ currentChunk = getChunkKey(currentChunkCoords.x, currentChunkCoords.y)
            /\ currentChunk \in DOMAIN chunks)
    /\ [][Ran({"navigateTo"}) =>
            LET direction == lastOp'.args[1]
                dx == IF direction = "west" THEN 0 - 1 ELSE IF direction = "east" THEN 1 ELSE 0
                dy == IF direction = "north" THEN 0 - 1 ELSE IF direction = "south" THEN 1 ELSE 0
            IN  /\ currentChunkCoords'.x = currentChunkCoords.x + dx
                /\ currentChunkCoords'.y = currentChunkCoords.y + dy
                /\ lastOp'.args[2] = currentChunkCoords']_vars

\* the player has walked north and then west, away from the origin
C12_WalkedNorthWest ==
    /\ lastOp.name = "navigateTo"
    /\ lastOp.args[1] = "west"
    /\ currentChunkCoords = [x |-> 0 - 1, y |-> 0 - 1]
    /\ Cardinality(visitedChunks) = 3

\* C13: mining starts only in a handleInput(true) step in edit mode that
\* finds a voxel under the pointer, with that voxel as the mining target; a
\* handleInput(false) step ends it; and the engine is mining only in edit
\* mode and only while its target is a voxel of the current chunk.
C13_MiningStateMachine ==
    /\ [][(~isMining /\ isMining') =>
            /\ lastOp'.name = "handleInput" /\ lastOp'.args[1]
            /\ mode = "EDIT"
            /\ miningTarget' = hoveredBlock' /\ miningTarget' # NoPoint
            /\ BlockAt(chunks[currentChunk].map, miningTarget'[1], miningTarget'[2],
                       miningTarget'[3]) # NoBlock]_vars
    /\ [][(lastOp'.name = "handleInput" /\ lastOp' # lastOp /\ ~lastOp'.args[1]) =>
            ~isMining']_vars
    /\ [](isMining =>
            /\ mode = "EDIT"
            /\ miningTarget # NoPoint
            /\ BlockAt(chunks[currentChunk].map, miningTarget[1], miningTarget[2],
                       miningTarget[3]) # NoBlock)

\* C14: once a voxel of durability D has been mined through D render() calls
\* without interruption, it is gone from the grid, the modification store
\* holds its removal, and one onInventoryUpdate event with its type has been
\* fired.
C14_MiningCompletes ==
    (held.target # NoPoint /\ held.durability > 0 /\ held.ticks >= held.durability) =>
        LET t == held.target
            record == RecordOf(chunkModifications, currentChunk)
            voxelKey == getVoxelKey(t[1], t[2], t[3])
        IN  /\ BlockAt(chunks[currentChunk].map, t[1], t[2], t[3]) = NoBlock
            /\ MapHas(record, voxelKey) /\ MapGet(record, voxelKey) = NoBlock
            /\ SelectSeq(events, LAMBDA e : e[1] = "onInventoryUpdate")
                  = <<(<<"onInventoryUpdate", held.type>>)>>

\* the cell placeBlock aims at: the hovered voxel moved by the hovered face
\* normal; no cell when nothing is hovered
Target ==
    IF hoveredBlock = NoPoint \/ hoveredFace = NoPoint THEN NoPoint
    ELSE <<hoveredBlock[1] + hoveredFace[1], hoveredBlock[2] + hoveredFace[2],
           hoveredBlock[3] + hoveredFace[3]>>

\* the target is a cell of the current chunk's grid that holds no voxel
TargetFree ==
    /\ Target # NoPoint
    /\ InGrid(Target[1], Target[2], Target[3], chunks[currentChunk].size)
    /\ BlockAt(chunks[currentChunk].map, Target[1], Target[2], Target[3]) = NoBlock

\* a block type is selected (AIR, the type 0, counts as none)
Selected == selectedBlockType # NoBlockType /\ selectedBlockType # AIR

\* C15: a placeBlock call whose target is outside the grid or occupied, or
\* that finds no block type selected, leaves every chunk (voxel grid, light
\* grid, dirty flag) and the modification store as they were, fires no
\* event and throws nothing.
C15_RejectedPlacement ==
    [][(Ran({"placeBlock"}) /\ (~TargetFree \/ ~Selected)) =>
          /\ chunks' = chunks
          /\ chunkModifications' = chunkModifications
          /\ events' = events
          /\ thrown' = ""]_vars

\* placeBlock was rejected with a type selected in edit mode: its target
\* was above the top of the grid, on a voxel placed before
C15_RejectedAboveTop ==
    /\ lastOp.name = "placeBlock"
    /\ ~lastOp.args[1]
    /\ lastOp.args[2] # NoPoint
    /\ lastOp.args[2][3] = WORLD_HEIGHT
    /\ Len(events) = 1

\* C16: a placeBlock call in edit mode with a type selected and a target
\* that is a free cell of the grid puts a voxel of the selected type, at the
\* hp BLOCK_DEFINITIONS gives the type, in the target cell of the current
\* chunk, records it under the current chunk in the modification store, and
\* fires onBlockPlaced once, with the selected type.
C16_Placement ==
    [][(Ran({"placeBlock"}) /\ mode = "EDIT" /\ Selected /\ TargetFree) =>
          LET newBlock == [type |-> selectedBlockType,
                           hp |-> BLOCK_DEFINITIONS[selectedBlockType].hp,
                           isNatural |-> FALSE, variant |-> ""]
              record == RecordOf(chunkModifications', currentChunk)
              voxelKey == getVoxelKey(Target[1], Target[2], Target[3])
          IN  /\ currentChunk = getChunkKey(currentChunkCoords.x, currentChunkCoords.y)
              /\ BlockAt(chunks'[currentChunk].map, Target[1], Target[2], Target[3]) = newBlock
              /\ MapHas(record, voxelKey) /\ MapGet(record, voxelKey) = newBlock
              /\ events' = Append(events, <<"onBlockPlaced", selectedBlockType>>)]_vars

\* planks were placed on the surface voxel of column (0,0)
C16_PlanksPlaced ==
    /\ lastOp.name = "placeBlock"
    /\ lastOp.args[1]
    /\ lastOp.args[2] = <<0, 0, 2>>
    /\ BlockAt(chunks[currentChunk].map, 0, 0, 2).type = WOODEN_PLANKS
    /\ events = <<(<<"onBlockPlaced", WOODEN_PLANKS>>)>>

\* C17: a modifyBlock call whose local coordinate is outside the grid of its
\* chunk, [0,size) x [0,size) x [0,WORLD_HEIGHT), leaves the modification
\* store and every chunk (voxel grid, light grid, dirty flag) as they were
\* and throws nothing.
C17_OutOfBoundsMutation ==
    [][(Ran({"modifyBlock"}) /\
          LET a == lastOp'.args
              size == TerrainOf(worldSeed, a[1], a[2], BiomeOf(worldSeed, a[1], a[2])).size
          IN  ~InGrid(a[3], a[4], a[5], size)) =>
          /\ chunkModifications' = chunkModifications
          /\ chunks' = chunks
          /\ thrown' = ""]_vars

\* C18: an engine built over a storage item that cannot be read, is not
\* JSON or has not the nested-list shape is built without error, has an
\* empty modification store, and its chunk (0,0) is the generated terrain.
C18_StorageFailure ==
    (/\ lastOp.name = "new" /\ lastOp.args[2]
     /\ localStorage[getStorageKey(worldSeed)] \in CorruptItems) =>
        /\ thrown = ""
        /\ chunkModifications = <<>>
        /\ getChunkKey(0, 0) \in DOMAIN chunks
        /\ chunks[getChunkKey(0, 0)].map =
              TerrainOf(worldSeed, 0, 0, BiomeOf(worldSeed, 0, 0)).map

\* C19: a saveToStorage call whose write fails throws nothing and leaves the
\* modification store, every chunk and localStorage as they were and the
\* auto-save timer set; after it the engine still takes a modifyBlock call
\* and a later saveToStorage call.
C19_QuotaExceeded ==
    /\ [][(Ran({"saveToStorage"}) /\ ~lastOp'.args[1]) =>
            /\ thrown' = ""
            /\ chunkModifications' = chunkModifications
            /\ chunks' = chunks
            /\ localStorage' = localStorage
            /\ autoSaveInterval']_vars
    /\ []((lastOp.name = "saveToStorage" /\ ~lastOp.args[1] /\ opsLeft > 0) =>
            /\ ENABLED ModifyBlock(0, 0, 0, 0, 1, NoBlock)
            /\ ENABLED SaveToStorage(TRUE))

\* a write failed with edits in the store, after an earlier write succeeded
C19_FailedAfterSaved ==
    /\ lastOp.name = "saveToStorage"
    /\ ~lastOp.args[1]
    /\ Len(chunkModifications) > 0
    /\ savedStore[getStorageKey(worldSeed)].present
    /\ savedStore[getStorageKey(worldSeed)].store # chunkModifications

\* C20: constructing an engine on a canvas that gives no 2D context throws;
\* nothing is loaded from localStorage, localStorage is as it was, no
\* auto-save timer is set and no chunk is generated.
C20_NoContext ==
    [][(Ran({"new"}) /\ ~lastOp'.args[2]) =>
          /\ thrown' = "Could not get 2D context."
          /\ chunkModifications' = <<>>
          /\ localStorage' = localStorage
          /\ ~autoSaveInterval'
          /\ chunks' = <<>>
          /\ firstGenerated' = firstGenerated]_vars

\* the construction failed for want of a context over a saved store that
\* holds an edit
C20_FailedOverSavedStore ==
    /\ lastOp.name = "new"
    /\ ~lastOp.args[2]
    /\ thrown # ""
    /\ localStorage[getStorageKey(worldSeed)].present
    /\ localStorage[getStorageKey(worldSeed)].form = "entries"
    /\ Len(localStorage[getStorageKey(worldSeed)].raw) > 0

\* the indices of the inventory's slots
SlotIndices == 0..(INVENTORY_SIZE - 1)

\* the count of an item in the inventory's slots
Held(inventory, itemId) == totalCount(inventory, itemId, INVENTORY_SIZE - 1)

\* every stack holds at least one item and no more than its item's maxStack
WellStacked(inventory) ==
    \A i \in SlotIndices :
        inventory[i] # NoSlot =>
            /\ inventory[i].itemId \in DOMAIN ITEMS
            /\ inventory[i].count >= 1
            /\ inventory[i].count <= ITEMS[inventory[i].itemId].maxStack

\* C27: addItem(itemId, count) with count > 0 for an item of the registry
\* tops up the stacks of the item before it fills an empty slot, leaves every
\* stack within its item's maxStack and the stacks of other items as they
\* were, returns true exactly when the whole count was stored, and stores as
\* much as fits when it returns false; the count of the item grows by the
\* amount stored.  For an id the registry does not hold it returns false and
\* changes nothing.
C27_AddItem ==
    /\ [](WellStacked(slots))
    /\ [][Ran({"addItem"}) =>
            LET itemId == lastOp'.args[1]
                count == lastOp'.args[2]
                returned == lastOp'.args[3]
                stored == Held(slots', itemId) - Held(slots, itemId)
            IN  IF itemId \notin DOMAIN ITEMS THEN ~returned /\ slots' = slots
                ELSE /\ stored >= 0 /\ stored <= count
                     /\ returned = (stored = count)
                     /\ \A i \in SlotIndices :
                           /\ (slots[i] # NoSlot /\ slots[i].itemId # itemId) => slots'[i] = slots[i]
                           /\ (slots[i] # NoSlot /\ slots[i].itemId = itemId) =>
                                 /\ slots'[i].itemId = itemId
                                 /\ slots'[i].count >= slots[i].count
                           /\ (slots[i] = NoSlot /\ slots'[i] # NoSlot) =>
                                 /\ slots'[i].itemId = itemId
                                 /\ \A j \in SlotIndices :
                                       (slots[j] # NoSlot /\ slots[j].itemId = itemId) =>
                                           slots'[j].count = ITEMS[itemId].maxStack
                     /\ ~returned =>
                           \A i \in SlotIndices :
                               /\ slots'[i] # NoSlot
                               /\ slots'[i].itemId = itemId =>
                                     slots'[i].count = ITEMS[itemId].maxStack]_vars

\* addItem returned false after it had topped up a stack with a part of the
\* count, in an inventory that holds a stack of another item too
C27_StoredInPart ==
    /\ lastOp.name = "addItem"
    /\ ~lastOp.args[3]
    /\ Held(slots, lastOp.args[1]) > STACK_OF_BLOCKS
    /\ Held(slots, lastOp.args[1]) < (STACK_OF_BLOCKS * 2) + 1
    /\ \E i \in SlotIndices : slots[i] # NoSlot /\ slots[i].itemId # lastOp.args[1]

\* C28: removeItem(itemId, count) returns false and leaves every slot as it
\* was when the inventory holds fewer than count of the item; otherwise it
\* returns true, the count of the item drops by count, the stacks of other
\* items are as they were, and a stack that reaches 0 is an empty slot: no
\* slot holds a stack of 0 or fewer.
C28_RemoveItem ==
    /\ [](\A i \in SlotIndices : slots[i] # NoSlot => slots[i].count > 0)
    /\ [][Ran({"removeItem"}) =>
            LET itemId == lastOp'.args[1]
                count == lastOp'.args[2]
                returned == lastOp'.args[3]
            IN  IF Held(slots, itemId) < count THEN ~returned /\ slots' = slots
                ELSE /\ returned
                     /\ Held(slots', itemId) = Held(slots, itemId) - count
                     /\ \A i \in SlotIndices :
                           (slots[i] = NoSlot \/ slots[i].itemId # itemId) => slots'[i] = slots[i]]_vars

\* removeItem emptied one stack and took a part of another
C28_TookFromTwoStacks ==
    /\ lastOp.name = "removeItem"
    /\ lastOp.args[3]
    /\ lastOp.args[2] = 2
    /\ \E i \in SlotIndices : slots[i] = NoSlot
    /\ Held(slots, lastOp.args[1]) = STACK_OF_BLOCKS - 1

\* C21: dispose() clears the auto-save timer and calls saveToStorage: when
\* the write succeeds the item under the seed's storage key is the written
\* form of the modification store as it is at the call, and reading it back
\* gives that store, every entry of it; the store itself is as it was.  The
\* timer fires only while it is set, dispose leaves it cleared, and only the
\* construction of an engine sets it: no auto-save of the disposed engine
\* runs.
C21_FlushOnTeardown ==
    /\ [][Ran({"dispose"}) =>
            /\ ~autoSaveInterval'
            /\ chunkModifications' = chunkModifications
            /\ thrown' = ""
            /\ IF lastOp'.args[1]
               THEN /\ localStorage'[getStorageKey(worldSeed)] = Item(Serialize(chunkModifications))
                    /\ loadFromStorage(localStorage'[getStorageKey(worldSeed)]) = chunkModifications
               ELSE localStorage' = localStorage]_vars
    /\ [][Ran({"autoSave"}) => autoSaveInterval]_vars
    /\ [][(~autoSaveInterval /\ autoSaveInterval') => lastOp'.name = "new"]_vars
    /\ [](lastOp.name = "dispose" =>
            /\ ~autoSaveInterval
            /\ ~ENABLED AutoSave(TRUE)
            /\ ~ENABLED AutoSave(FALSE))

\* dispose, the last call of a run, wrote a store that holds an edit
C21_FlushedLateEdit ==
    /\ lastOp.name = "dispose"
    /\ lastOp.args[1]
    /\ opsLeft = 0
    /\ Len(chunkModifications) > 0
    /\ localStorage[getStorageKey(worldSeed)] = Item(Serialize(chunkModifications))

C29_MiningInvariant ==
    /\ [](isMining =>
            /\ mode = "EDIT"
            /\ isInputDown
            /\ miningTarget # NoPoint
            /\ InGrid(miningTarget[1], miningTarget[2], miningTarget[3], chunks[currentChunk].size)
            /\ BlockAt(chunks[currentChunk].map, miningTarget[1], miningTarget[2],
                       miningTarget[3]) # NoBlock)
    /\ []((\/ lastOp.name \in {"setMode", "navigateTo"}
           \/ lastOp.name = "handleInput" /\ ~lastOp.args[1] /\ mode = "EDIT") =>
            ~isMining /\ miningTarget = NoPoint)

\* C25: the size of every cached chunk is an integer from MIN_CHUNK_SIZE to
\* MAX_CHUNK_SIZE, the one the chunk's seed and coordinate give, and the
\* cells of its voxel grid and of its light grid are those of a grid of that
\* size, after every operation.
C25_ChunkSizing ==
    \A k \in DOMAIN chunks :
        /\ chunks[k].size \in MIN_CHUNK_SIZE..MAX_CHUNK_SIZE
        /\ chunks[k].size = ChunkSize(worldSeed, chunks[k].coordX, chunks[k].coordY)
        /\ DOMAIN chunks[k].map = Cells(chunks[k].size)
        /\ DOMAIN chunks[k].lightMap = Cells(chunks[k].size)

\* C23: the column fill carves a cell hollow only when the cell lies more
\* than 12 below the surface height of its column: every cell z with
\* surfaceHeight - 12 <= z <= surfaceHeight holds a block after the fill,
\* cell 0 holds bedrock, and a cell at or below the surface that holds no
\* block lies below surfaceHeight - 12 with its noise inside the band.
C23_CavesBelowBuffer ==
    lastOp.name = "fillCell" =>
        LET surfaceHeight == lastOp.args[1]
            z == lastOp.args[2]
            n3d == lastOp.args[3]
            block == lastOp.args[4]
        IN  /\ (surfaceHeight - 12 <= z /\ z <= surfaceHeight) => block # NoBlock
            /\ z = 0 => block.type = BEDROCK
            /\ (z <= surfaceHeight /\ block = NoBlock) =>
                  /\ z > 0 /\ z < surfaceHeight - 12
                  /\ Abs(n3d) < 160

\* a cell was carved right under the buffer, and its column has stone above
C23_CarvedUnderBuffer ==
    /\ lastOp.name = "fillCell"
    /\ lastOp.args[4] = NoBlock
    /\ lastOp.args[1] = ColumnHeight - 1
    /\ lastOp.args[2] = lastOp.args[1] - 13

\* the distances of column (x, y) to the north, south, west and east edges
EdgeDistances(size, x, y) == <<y, size - 1 - y, x, size - 1 - x>>

\* the points the blending samples its noise at for the four edges
EdgePoints(size, x, y) == << <<x, 0>>, <<x, size>>, <<0, y>>, <<size, y>> >>

C22_DeferredRemovals ==
    /\ [][(/\ Ran({"modifyBlock"})
           /\ lastOp'.args[6] = NoBlock
           /\ lastOp'.key \in DOMAIN chunks
           /\ LET map == chunks[lastOp'.key].map
                  cell == <<lastOp'.args[3], lastOp'.args[4], lastOp'.args[5]>>
                  trunk(block) == block.type \in {LOG, SPRUCE_LOG} /\ block.isNatural
                  touches(c, d) == c # d /\ \A i \in 1..3 : c[i] - d[i] \in {0 - 1, 0, 1}
              IN  /\ cell \in DOMAIN map
                  /\ trunk(map[cell])
                  /\ \E d \in DOMAIN map : touches(cell, d) /\ trunk(map[d]))
          => timers' # {}]_vars
    /\ [][lastOp'.name # "new" => timers \subseteq timers']_vars

====
